---- MODULE Spec2Model ----
(***************************************************************************)
(* Verification model of the polymarket-bot-summer terminal dashboard:     *)
(* the App state machine of src/src/tui/app.rs (watchlist, log buffer,     *)
(* modal key handling, simulated market analysis), the run_app loop of     *)
(* src/src/tui/mod.rs, the SpikeDetector of src/src/spike_detection.rs     *)
(* (order-book imbalance, volume velocity) and the ExecutionEngine of      *)
(* src/src/execution.rs (paused flag, place_order).                        *)
(*                                                                         *)
(* Rust strings are sequences of one-character strings, so that parsing,   *)
(* splitting and formatting are computed and not assumed.                  *)
(***************************************************************************)
EXTENDS Integers, Sequences, FiniteSets, TLC

VARIABLES
    \* ---- App (src/src/tui/app.rs:126-164) ----
    current_tab, should_quit, logs, is_paused,
    input_mode, command_input, quit_selection, leave_selection,
    available_markets, joined_markets, watched_markets_info,
    selected_market_index, selected_watched_market_index, is_loading_markets,
    docs_selected_section, docs_viewing_content, docs_scroll_offset,
    market_analysis_data,   \* market id -> MarketAnalysis (app.rs:107-123)
    last_refresh,     \* the Instant of the last refresh, in ms on the clock below
    \* ---- collaborators ----
    db_rows,          \* the watched_markets table: id -> "none" | "active" | "inactive"
    engine_paused,    \* ExecutionEngine's BotState.is_paused
    last_order_id,    \* ExecutionEngine's BotState.last_order_id
    order_calls,      \* the place_order calls in progress: caller -> position and result
    clock,            \* the monotonic clock (Instant::now), in ms since App::new
    \* ---- SpikeDetector (src/src/spike_detection.rs:8-21) ----
    volume_history, volume_velocity_threshold, now,
    \* ---- observation of the last operation (history variables) ----
    log_count,        \* number of add_log calls made so far
    calls,            \* collaborator calls made by the last operation
    fetched,          \* the markets the market service answered to the last operation
    refreshed_at,     \* the clock readings at which refresh_data queried the engine
    \* ---- run_app (src/src/tui/mod.rs:47-71) ----
    pc,               \* the statement of the loop body that runs next
    iteration,        \* the statements run so far in the current iteration
    since_quit,       \* the statements run since should_quit was found set
    last,             \* the last operation: its name, its input, the state before it
    n_ops,            \* number of operations that wrote to the log
    quit_script,      \* progress of the last keys along quit-key, toggle, Enter / Escape
    det_result,       \* what the last SpikeDetector call returned
    det_call          \* the last SpikeDetector call: its inputs and the sample it found

appVars == <<current_tab, should_quit, logs, is_paused,
             input_mode, command_input, quit_selection, leave_selection,
             available_markets, joined_markets, watched_markets_info,
             selected_market_index, selected_watched_market_index, is_loading_markets,
             docs_selected_section, docs_viewing_content, docs_scroll_offset,
             market_analysis_data,
             last_refresh, db_rows, engine_paused, log_count, calls, fetched>>

detVars == <<volume_history, volume_velocity_threshold, now, det_result, det_call>>

timeVars == <<clock, refreshed_at>>

loopVars == <<pc, iteration, since_quit>>

engineVars == <<last_order_id, order_calls>>

vars == <<appVars, engineVars, detVars, timeVars, loopVars, last, n_ops, quit_script>>

-----------------------------------------------------------------------------
(* Bounds of the model *)

\* operations that write to the log, per run
MaxOps == 2
\* executions of the help listing before the observed run starts
PriorHelps == 16
\* add_log calls followed in the log-buffer specification
MaxAdds == 150

\* command lines of a run of the command-entry specification that write to the log
MaxSubmits == 1

\* largest volume sample and largest order-book volume
MaxVolume == 2
\* largest clock reading (seconds)
MaxTime == 2

\* largest reading of the monotonic clock (milliseconds since the App was created)
MaxClock == 1100

-----------------------------------------------------------------------------
(* Strings *)

Digits == <<"0", "1", "2", "3", "4", "5", "6", "7", "8", "9">>

IsDigit(c) == \E i \in 1..10 : Digits[i] = c

DigitValue(c) == (CHOOSE i \in 1..10 : Digits[i] = c) - 1

RECURSIVE DigitsValue(_)
DigitsValue(s) ==
    IF s = <<>> THEN 0
    ELSE 10 * DigitsValue(SubSeq(s, 1, Len(s) - 1)) + DigitValue(s[Len(s)])

\* str::parse::<usize>: an optional '+', then one or more ASCII digits (the
\* references of this model are far too short to overflow a usize)
ParseUsize(s) ==
    LET body == IF s # <<>> /\ s[1] = "+" THEN Tail(s) ELSE s
    IN  IF body # <<>> /\ (\A i \in 1..Len(body) : IsDigit(body[i]))
        THEN [ok |-> TRUE, value |-> DigitsValue(body)]
        ELSE [ok |-> FALSE, value |-> 0]

\* usize::to_string
RECURSIVE UsizeToString(_)
UsizeToString(n) ==
    IF n < 10 THEN <<Digits[n + 1]>>
    ELSE UsizeToString(n \div 10) \o <<Digits[(n % 10) + 1]>>

UpperCase == <<"A", "B", "C", "D", "E", "F", "G", "H", "I", "J", "K", "L", "M",
               "N", "O", "P", "Q", "R", "S", "T", "U", "V", "W", "X", "Y", "Z">>

LowerCase == <<"a", "b", "c", "d", "e", "f", "g", "h", "i", "j", "k", "l", "m",
               "n", "o", "p", "q", "r", "s", "t", "u", "v", "w", "x", "y", "z">>

\* str::to_lowercase, on ASCII
ToLowercase(s) ==
    [i \in 1..Len(s) |->
        IF \E k \in 1..26 : UpperCase[k] = s[i]
        THEN LowerCase[CHOOSE k \in 1..26 : UpperCase[k] = s[i]]
        ELSE s[i]]

\* str::split_whitespace: the maximal runs of non-blank characters, in order
RECURSIVE SplitWhitespace(_)
SplitWhitespace(s) ==
    IF s = <<>> THEN <<>>
    ELSE IF s[1] = " " THEN SplitWhitespace(Tail(s))
    ELSE LET stops == {i \in 1..Len(s) : s[i] = " "}
             cut == IF stops = {} THEN Len(s) + 1
                    ELSE CHOOSE i \in stops : \A j \in stops : i <= j
         IN  <<SubSeq(s, 1, cut - 1)>> \o SplitWhitespace(SubSeq(s, cut, Len(s)))

\* [&str]::join(" ")
RECURSIVE JoinSpace(_)
JoinSpace(parts) ==
    IF parts = <<>> THEN <<>>
    ELSE IF Len(parts) = 1 THEN parts[1]
    ELSE parts[1] \o <<" ">> \o JoinSpace(Tail(parts))

\* Vec::contains
Contains(seq, x) == \E i \in 1..Len(seq) : seq[i] = x

\* Iterator::position: the first index holding x, 0 when there is none
Position(seq, x) ==
    IF Contains(seq, x) THEN CHOOSE i \in 1..Len(seq) : seq[i] = x /\ \A j \in 1..(i - 1) : seq[j] # x
    ELSE 0

\* Vec::remove(pos)
RemoveAt(seq, pos) == SubSeq(seq, 1, pos - 1) \o SubSeq(seq, pos + 1, Len(seq))

\* Vec::retain(|m| m.id != id)
RECURSIVE RetainOtherIds(_, _)
RetainOtherIds(seq, id) ==
    IF seq = <<>> THEN <<>>
    ELSE IF seq[1].id # id THEN <<seq[1]>> \o RetainOtherIds(Tail(seq), id)
    ELSE RetainOtherIds(Tail(seq), id)

\* the ids of a list of MarketInfo, in order
IdsOf(seq) == [i \in 1..Len(seq) |-> seq[i].id]

NoDuplicates(seq) == \A i, j \in 1..Len(seq) : i # j => seq[i] # seq[j]

-----------------------------------------------------------------------------
(* Tabs *)

Tabs == {"Dashboard", "Orders", "Markets", "MarketDetail", "Logs", "Docs"}

TabNextSkipsLogs(t) ==
    CASE t = "Dashboard" -> "Orders"
      [] t = "Orders" -> "Markets"
      [] t = "Markets" -> "MarketDetail"
      [] t = "MarketDetail" -> "Docs"
      [] t = "Logs" -> "Docs"
      [] t = "Docs" -> "Dashboard"

TabNext(t) ==
    CASE t = "Dashboard" -> "Orders"
      [] t = "Orders" -> "Markets"
      [] t = "Markets" -> "MarketDetail"
      [] t = "MarketDetail" -> "Logs"
      [] t = "Logs" -> "Docs"
      [] t = "Docs" -> "Dashboard"

TabPrev(t) ==
    CASE t = "Dashboard" -> "Docs"
      [] t = "Orders" -> "Dashboard"
      [] t = "Markets" -> "Orders"
      [] t = "MarketDetail" -> "Markets"
      [] t = "Logs" -> "MarketDetail"
      [] t = "Docs" -> "Logs"

RECURSIVE TabNextTimes(_, _)
TabNextTimes(t, k) == IF k = 0 THEN t ELSE TabNextTimes(TabNext(t), k - 1)

-----------------------------------------------------------------------------
(* The log buffer *)

Levels == {"Info", "Warning", "Error", "Success"}

\* "Keep only last 100 logs"
MaxLogs == 100

Msg(text, arg) == [text |-> text, arg |-> arg]

\* the entry add_log builds; seq is the ordinal of the call, standing for the
\* timestamp and the identity of the message
LogEntry(level, message, seq) == [level |-> level, message |-> message, seq |-> seq]

AddLogDropsNewest(a, level, message) ==
    LET pushed == Append(a.logs, LogEntry(level, message, a.log_count + 1))
    IN  [a EXCEPT !.logs = IF Len(pushed) > MaxLogs THEN SubSeq(pushed, 1, MaxLogs) ELSE pushed,
                  !.log_count = @ + 1]

\* App::add_log: push, then drop the oldest entry when more than 100 are held
AddLog(a, level, message) ==
    LET pushed == Append(a.logs, LogEntry(level, message, a.log_count + 1))
    IN  [a EXCEPT !.logs = IF Len(pushed) > MaxLogs THEN Tail(pushed) ELSE pushed,
                  !.log_count = @ + 1]

-----------------------------------------------------------------------------
(* Markets and the collaborators' answers *)

idA == <<"a">>
id2 == <<"2">>
idX == <<"x">>

\* every market id of the model; idX is never among the search results
AllIds == {idA, id2, idX}

\* MarketInfo (src/src/markets.rs:117-125), the fields the dashboard reads
MarketInfo(id, question) == [id |-> id, question |-> question]

mA == MarketInfo(idA, <<"A">>)
m2 == MarketInfo(id2, <<"B">>)

\* what MarketService::search_markets / get_trending_markets can answer: an error,
\* or a list of markets (ids may be numeric, and may repeat across events)
FetchOutcomes ==
    {[ok |-> FALSE, markets |-> <<>>]}
    \cup {[ok |-> TRUE, markets |-> r] : r \in {<<m2, mA>>, <<m2>>, <<mA, mA>>}}

\* what load_watched_markets can answer when the App starts
LoadOutcomes ==
    {[ok |-> TRUE, markets |-> <<>>],
     [ok |-> TRUE, markets |-> <<m2, mA>>],
     [ok |-> FALSE, markets |-> <<>>]}

\* the answers of the collaborators during one operation
Exts == [db_ok : BOOLEAN, fetch : FetchOutcomes]

\* for operations that reach the store only, and the market service only
DbExts == {e \in Exts : ~e.fetch.ok}
FetchExts == {e \in Exts : e.db_ok}

Call(op, id, ok) == [op |-> op, id |-> id, ok |-> ok]

-----------------------------------------------------------------------------
(* The simulated market analysis (App::simulate_market_data) *)

\* Velocities are counted in units of 1.0 and order-book imbalances in units
\* of 1/ObiScale; a draw of next_random, a number of [0, 1], is counted in
\* units of 1/RandomScale
RandomScale == 1000

ObiScale == 10000

MaxVelocity == 2000

SpikeVelocity == 1000

SpikeDraw == 950

MaxRecentEvents == 10

Abs(x) == IF x < 0 THEN -x ELSE x

Clamp(x, lo, hi) == IF x < lo THEN lo ELSE IF x > hi THEN hi ELSE x

\* Option<f64>: None, and Some(x)
None == <<>>

Some(x) == <<x>>

\* MarketAnalysis::default (app.rs:114-123)
DefaultAnalysis ==
    [volume_history |-> <<>>, current_velocity |-> None, current_obi |-> None,
     recent_events |-> <<>>]

NoAnalysisData == [id \in {} |-> DefaultAnalysis]

\* (rnd - 0.5) * 200.0
VelocityChange(rnd) == ((rnd - RandomScale \div 2) * 200) \div RandomScale

\* (rnd2 - 0.5) * 0.1
ObiChange(rnd2) == ((rnd2 - RandomScale \div 2) * ObiScale) \div (10 * RandomScale)

\* recent_events.insert(0, event) followed by a removal at the front in place
\* of the pop: the entry dropped from a full list is the new one
InsertEventDropsNewest(recent_events, event) ==
    LET inserted == <<event>> \o recent_events
    IN  IF Len(inserted) > MaxRecentEvents
        THEN Tail(inserted)
        ELSE inserted

\* recent_events.insert(0, event); if recent_events.len() > 10 { recent_events.pop(); }
InsertEvent(recent_events, event) ==
    LET inserted == <<event>> \o recent_events
    IN  IF Len(inserted) > MaxRecentEvents
        THEN SubSeq(inserted, 1, Len(inserted) - 1)
        ELSE inserted

\* the velocity step of the loop body, moving the velocity twice as far as
\* the draw allows
SimulateVelocityDoubled(vel, rnd) ==
    Clamp(vel + 2 * VelocityChange(rnd), -MaxVelocity, MaxVelocity)

\* (vel + change).clamp(-2000.0, 2000.0)
SimulateVelocity(vel, rnd) ==
    Clamp(vel + VelocityChange(rnd), -MaxVelocity, MaxVelocity)

\* (obi + change).clamp(-1.0, 1.0)
SimulateObi(obi, rnd2) ==
    Clamp(obi + ObiChange(rnd2), -ObiScale, ObiScale)

\* the body of the loop of simulate_market_data for one market; draw holds the
\* three numbers next_random returns: rnd, the number compared with 0.95 and rnd2
SimulateEntry(entry, market_id, draw, at) ==
    LET vel == IF entry.current_velocity = None THEN 0 ELSE entry.current_velocity[1]
        obi == IF entry.current_obi = None THEN 0 ELSE entry.current_obi[1]
        new_vel == SimulateVelocity(vel, draw.rnd)
        event == [market_id |-> market_id, velocity |-> new_vel,
                  volume_delta |-> VelocityChange(draw.rnd), time_delta |-> 500,
                  timestamp |-> at \div 1000]
    IN  [entry EXCEPT
            !.current_velocity = Some(new_vel),
            !.recent_events = IF Abs(new_vel) > SpikeVelocity /\ draw.spike > SpikeDraw
                              THEN InsertEvent(@, event) ELSE @,
            !.current_obi = Some(SimulateObi(obi, draw.rnd2))]

\* App::simulate_market_data: one step for every market of watched_markets_info
SimulateMarketData(a, draws, at) ==
    LET watched == {a.watched_markets_info[i].id : i \in DOMAIN a.watched_markets_info}
    IN  [a EXCEPT !.market_analysis_data =
            [id \in DOMAIN @ \cup watched |->
                IF id \in watched
                THEN SimulateEntry(IF id \in DOMAIN @ THEN @[id] ELSE DefaultAnalysis,
                                   id, draws[id], at)
                ELSE @[id]]]

-----------------------------------------------------------------------------
(* The execution engine (src/src/execution.rs) *)

\* the tasks that call place_order
Callers == {"c1", "c2"}

\* Config::min_order_size and Config::max_order_size, by default
MinOrderSize == 1

MaxOrderSize == 100

\* a place_order call is not started, or has passed the is_paused test under
\* the read lock ("checked"), or has returned ("returned")
Idle == [at |-> "idle", size |-> 0, result |-> "None", order_id |-> None]

\* a pause that does not reach the engine's state
EngineLeftRunning(a) == a

\* ExecutionEngine::pause and the state change of cancel_all_orders, under the write lock
EnginePaused(a) == [a EXCEPT !.engine_paused = TRUE]

\* ExecutionEngine::resume, under the write lock
EngineResumed(a) == [a EXCEPT !.engine_paused = FALSE]

\* format!("order_{}", timestamp_millis)
OrderId(at) == <<"order_", at>>

-----------------------------------------------------------------------------
(* App::refresh_data *)

\* refresh_data returns early until this many milliseconds have elapsed
RefreshInterval == 500

RefreshDataTouchesLastRefresh(a, checked_at, set_at, draws) ==
    IF checked_at - a.last_refresh < RefreshInterval
        THEN [a EXCEPT !.last_refresh = set_at]
        ELSE SimulateMarketData(
                 [a EXCEPT !.last_refresh = set_at,
                           !.is_paused = a.engine_paused,
                           !.calls = Append(@, Call("is_paused", <<>>, TRUE))],
                 draws, set_at)

\* App::refresh_data: nothing before RefreshInterval has elapsed; then the
\* paused flag is copied from the engine and the simulation advances
RefreshData(a, checked_at, set_at, draws) ==
    IF checked_at - a.last_refresh < RefreshInterval
        THEN a
        ELSE SimulateMarketData(
                 [a EXCEPT !.last_refresh = set_at,
                           !.is_paused = a.engine_paused,
                           !.calls = Append(@, Call("is_paused", <<>>, TRUE))],
                 draws, set_at)

SaveWatchedMarketKeepsInactive(a, market, ok) ==
    [a EXCEPT !.calls = Append(@, Call("save", market.id, ok)),
              !.db_rows = IF ok /\ @[market.id] = "none"
                          THEN [@ EXCEPT ![market.id] = "active"] ELSE @]

\* save_watched_market: INSERT OR REPLACE ... active = 1
SaveWatchedMarket(a, market, ok) ==
    [a EXCEPT !.calls = Append(@, Call("save", market.id, ok)),
              !.db_rows = IF ok THEN [@ EXCEPT ![market.id] = "active"] ELSE @]

\* remove_watched_market: UPDATE ... SET active = 0 WHERE id = ?
RemoveWatchedMarket(a, id, ok) ==
    [a EXCEPT !.calls = Append(@, Call("remove", id, ok)),
              !.db_rows = IF ok /\ @[id] # "none" THEN [@ EXCEPT ![id] = "inactive"] ELSE @]

-----------------------------------------------------------------------------
(* The App as a record, so that a handler is a function from App to App *)

App ==
    [current_tab |-> current_tab, should_quit |-> should_quit, logs |-> logs,
     is_paused |-> is_paused, input_mode |-> input_mode,
     command_input |-> command_input, quit_selection |-> quit_selection,
     leave_selection |-> leave_selection, available_markets |-> available_markets,
     joined_markets |-> joined_markets, watched_markets_info |-> watched_markets_info,
     selected_market_index |-> selected_market_index,
     selected_watched_market_index |-> selected_watched_market_index,
     is_loading_markets |-> is_loading_markets,
     docs_selected_section |-> docs_selected_section,
     docs_viewing_content |-> docs_viewing_content,
     docs_scroll_offset |-> docs_scroll_offset,
     db_rows |-> db_rows, engine_paused |-> engine_paused,
     log_count |-> log_count, calls |-> calls,
     market_analysis_data |-> market_analysis_data,
     last_refresh |-> last_refresh, fetched |-> fetched]

Commit(a) ==
    /\ current_tab' = a.current_tab
    /\ should_quit' = a.should_quit
    /\ logs' = a.logs
    /\ is_paused' = a.is_paused
    /\ input_mode' = a.input_mode
    /\ command_input' = a.command_input
    /\ quit_selection' = a.quit_selection
    /\ leave_selection' = a.leave_selection
    /\ available_markets' = a.available_markets
    /\ joined_markets' = a.joined_markets
    /\ watched_markets_info' = a.watched_markets_info
    /\ selected_market_index' = a.selected_market_index
    /\ selected_watched_market_index' = a.selected_watched_market_index
    /\ is_loading_markets' = a.is_loading_markets
    /\ docs_selected_section' = a.docs_selected_section
    /\ docs_viewing_content' = a.docs_viewing_content
    /\ docs_scroll_offset' = a.docs_scroll_offset
    /\ db_rows' = a.db_rows
    /\ engine_paused' = a.engine_paused
    /\ log_count' = a.log_count
    /\ calls' = a.calls
    /\ market_analysis_data' = a.market_analysis_data
    /\ last_refresh' = a.last_refresh
    /\ fetched' = a.fetched

NoArg == <<>>

-----------------------------------------------------------------------------
(* Watchlist operations *)

JoinByIndexNoMembershipTest(a, index, ext) ==
    IF index > 0 /\ index <= Len(a.available_markets)
    THEN LET market == a.available_markets[index]
             saved == SaveWatchedMarket(a, market, ext.db_ok)
         IN  IF ~ext.db_ok
             THEN AddLog(saved, "Error", Msg("Failed to save market: {}", NoArg))
             ELSE AddLog(AddLog([saved EXCEPT
                                   !.joined_markets = Append(@, market.id),
                                   !.watched_markets_info = Append(@, market)],
                                "Success", Msg("Joined market: {}", market.question)),
                         "Info", Msg("ID: {}", market.id))
    ELSE AddLog(a, "Error", Msg("Invalid index: {}. Use 1-{}", UsizeToString(index)))

\* App::join_market, when the reference parses as an index
JoinByIndex(a, index, ext) ==
    IF index > 0 /\ index <= Len(a.available_markets)
    THEN LET market == a.available_markets[index]
         IN  IF ~Contains(a.joined_markets, market.id)
             THEN LET saved == SaveWatchedMarket(a, market, ext.db_ok)
                  IN  IF ~ext.db_ok
                      THEN AddLog(saved, "Error", Msg("Failed to save market: {}", NoArg))
                      ELSE AddLog(AddLog([saved EXCEPT
                                            !.joined_markets = Append(@, market.id),
                                            !.watched_markets_info = Append(@, market)],
                                         "Success", Msg("Joined market: {}", market.question)),
                                  "Info", Msg("ID: {}", market.id))
             ELSE AddLog(a, "Warning", Msg("Already monitoring this market", NoArg))
    ELSE AddLog(a, "Error", Msg("Invalid index: {}. Use 1-{}", UsizeToString(index)))

\* App::join_market, when the reference is taken as a market id: the entry is
\* copied from the search results when one carries the id, and only the id
\* index grows when none does
JoinById(a, market_id, ext) ==
    IF ~Contains(a.joined_markets, market_id)
    THEN LET pos == Position(IdsOf(a.available_markets), market_id)
         IN  IF pos # 0
             THEN LET market == a.available_markets[pos]
                      saved == SaveWatchedMarket(a, market, ext.db_ok)
                  IN  IF ~ext.db_ok
                      THEN AddLog(saved, "Error", Msg("Failed to save market: {}", NoArg))
                      ELSE AddLog([saved EXCEPT
                                     !.watched_markets_info = Append(@, market),
                                     !.joined_markets = Append(@, market_id)],
                                  "Success", Msg("Joined market: {}", market_id))
             ELSE AddLog([a EXCEPT !.joined_markets = Append(@, market_id)],
                         "Success", Msg("Joined market: {}", market_id))
    ELSE AddLog(a, "Warning", Msg("Already monitoring this market", NoArg))

\* join_market without the "Check if it's an index number" branch: every
\* reference is taken as a market id
JoinMarketByIdOnly(a, market_ref, ext) ==
    JoinById(a, market_ref, ext)

\* App::join_market: "Check if it's an index number", "Otherwise treat as market ID"
JoinMarket(a, market_ref, ext) ==
    LET parsed == ParseUsize(market_ref)
    IN  IF parsed.ok THEN JoinByIndex(a, parsed.value, ext)
        ELSE JoinById(a, market_ref, ext)

LeaveMarketIgnoresStoreError(a, market_id, ext) ==
    LET pos == Position(a.joined_markets, market_id)
    IN  IF pos # 0
        THEN LET removed == RemoveWatchedMarket(a, market_id, ext.db_ok)
             IN  IF ~ext.db_ok
                 THEN AddLog([removed EXCEPT
                                !.joined_markets = RemoveAt(@, pos),
                                !.watched_markets_info = RetainOtherIds(@, market_id)],
                             "Error", Msg("Failed to remove from DB: {}", NoArg))
                 ELSE AddLog([removed EXCEPT
                                !.joined_markets = RemoveAt(@, pos),
                                !.watched_markets_info = RetainOtherIds(@, market_id)],
                             "Info", Msg("Left market: {}", market_id))
        ELSE AddLog(a, "Warning", Msg("Not monitoring market: {}", market_id))

LeaveMarketSilentMiss(a, market_id, ext) ==
    LET pos == Position(a.joined_markets, market_id)
    IN  IF pos # 0
        THEN LET removed == RemoveWatchedMarket(a, market_id, ext.db_ok)
             IN  IF ~ext.db_ok
                 THEN AddLog(removed, "Error", Msg("Failed to remove from DB: {}", NoArg))
                 ELSE AddLog([removed EXCEPT
                                !.joined_markets = RemoveAt(@, pos),
                                !.watched_markets_info = RetainOtherIds(@, market_id)],
                             "Info", Msg("Left market: {}", market_id))
        ELSE a

\* App::leave_market
LeaveMarket(a, market_id, ext) ==
    LET pos == Position(a.joined_markets, market_id)
    IN  IF pos # 0
        THEN LET removed == RemoveWatchedMarket(a, market_id, ext.db_ok)
             IN  IF ~ext.db_ok
                 THEN AddLog(removed, "Error", Msg("Failed to remove from DB: {}", NoArg))
                 ELSE AddLog([removed EXCEPT
                                !.joined_markets = RemoveAt(@, pos),
                                !.watched_markets_info = RetainOtherIds(@, market_id)],
                             "Info", Msg("Left market: {}", market_id))
        ELSE AddLog(a, "Warning", Msg("Not monitoring market: {}", market_id))

SearchMarketsClearsOnFailure(a, keyword, ext) ==
    LET started == [AddLog(a, "Info", Msg("Searching markets: '{}'...", keyword)) EXCEPT
                      !.is_loading_markets = TRUE,
                      !.current_tab = "Markets",
                      !.calls = Append(@, Call("search", keyword, ext.fetch.ok))]
    IN  IF ext.fetch.ok
        THEN AddLog([started EXCEPT !.available_markets = ext.fetch.markets,
                                    !.selected_market_index = 0,
                                    !.is_loading_markets = FALSE,
                                    !.fetched = ext.fetch.markets],
                    "Success", Msg("Found {} markets", UsizeToString(Len(ext.fetch.markets))))
        ELSE AddLog([started EXCEPT !.available_markets = <<>>,
                                    !.selected_market_index = 0,
                                    !.is_loading_markets = FALSE],
                    "Error", Msg("Search failed: {}", NoArg))

SearchMarketsKeepsSelection(a, keyword, ext) ==
    LET started == [AddLog(a, "Info", Msg("Searching markets: '{}'...", keyword)) EXCEPT
                      !.is_loading_markets = TRUE,
                      !.current_tab = "Markets",
                      !.calls = Append(@, Call("search", keyword, ext.fetch.ok))]
    IN  IF ext.fetch.ok
        THEN AddLog([started EXCEPT !.available_markets = ext.fetch.markets,
                                    !.is_loading_markets = FALSE,
                                    !.fetched = ext.fetch.markets],
                    "Success", Msg("Found {} markets", UsizeToString(Len(ext.fetch.markets))))
        ELSE AddLog([started EXCEPT !.is_loading_markets = FALSE],
                    "Error", Msg("Search failed: {}", NoArg))

\* App::search_markets
SearchMarkets(a, keyword, ext) ==
    LET started == [AddLog(a, "Info", Msg("Searching markets: '{}'...", keyword)) EXCEPT
                      !.is_loading_markets = TRUE,
                      !.current_tab = "Markets",
                      !.calls = Append(@, Call("search", keyword, ext.fetch.ok))]
    IN  IF ext.fetch.ok
        THEN AddLog([started EXCEPT !.available_markets = ext.fetch.markets,
                                    !.selected_market_index = 0,
                                    !.is_loading_markets = FALSE,
                                    !.fetched = ext.fetch.markets],
                    "Success", Msg("Found {} markets", UsizeToString(Len(ext.fetch.markets))))
        ELSE AddLog([started EXCEPT !.is_loading_markets = FALSE],
                    "Error", Msg("Search failed: {}", NoArg))

LoadTrendingMarketsKeepsLoading(a, ext) ==
    LET started == [AddLog(a, "Info", Msg("Loading trending markets...", NoArg)) EXCEPT
                      !.is_loading_markets = TRUE,
                      !.current_tab = "Markets",
                      !.calls = Append(@, Call("trending", NoArg, ext.fetch.ok))]
    IN  IF ext.fetch.ok
        THEN AddLog([started EXCEPT !.available_markets = ext.fetch.markets,
                                    !.selected_market_index = 0,
                                    !.is_loading_markets = FALSE,
                                    !.fetched = ext.fetch.markets],
                    "Success", Msg("Loaded {} trending markets", UsizeToString(Len(ext.fetch.markets))))
        ELSE AddLog(started, "Error", Msg("Failed to load trending: {}", NoArg))

\* App::load_trending_markets
LoadTrendingMarkets(a, ext) ==
    LET started == [AddLog(a, "Info", Msg("Loading trending markets...", NoArg)) EXCEPT
                      !.is_loading_markets = TRUE,
                      !.current_tab = "Markets",
                      !.calls = Append(@, Call("trending", NoArg, ext.fetch.ok))]
    IN  IF ext.fetch.ok
        THEN AddLog([started EXCEPT !.available_markets = ext.fetch.markets,
                                    !.selected_market_index = 0,
                                    !.is_loading_markets = FALSE,
                                    !.fetched = ext.fetch.markets],
                    "Success", Msg("Loaded {} trending markets", UsizeToString(Len(ext.fetch.markets))))
        ELSE AddLog([started EXCEPT !.is_loading_markets = FALSE],
                    "Error", Msg("Failed to load trending: {}", NoArg))

\* consecutive add_log(LogLevel::Info, line) calls
RECURSIVE AddInfoLines(_, _)
AddInfoLines(a, lines) ==
    IF lines = <<>> THEN a
    ELSE AddInfoLines(AddLog(a, "Info", Msg(lines[1], NoArg)), Tail(lines))

CommandHelp ==
    <<"--- Available Commands ---", "/search <keyword>  - Search markets",
      "/trending          - Show trending markets",
      "/joinmarket <id|#> - Join market by ID or index",
      "/leavemarket <id>  - Leave a market", "/help              - Show this help">>

\* App::show_command_help
ShowCommandHelp(a) == AddInfoLines(a, CommandHelp)

-----------------------------------------------------------------------------
(* The command interpreter *)

SearchVerbs ==
    {<<"/", "s", "e", "a", "r", "c", "h">>, <<"s", "e", "a", "r", "c", "h">>,
     <<"/", "s">>, <<"s">>}

JoinVerbs ==
    {<<"/", "j", "o", "i", "n", "m", "a", "r", "k", "e", "t">>,
     <<"j", "o", "i", "n", "m", "a", "r", "k", "e", "t">>,
     <<"/", "j", "o", "i", "n">>, <<"j", "o", "i", "n">>, <<"/", "j">>, <<"j">>}

LeaveVerbs ==
    {<<"/", "l", "e", "a", "v", "e", "m", "a", "r", "k", "t">>,
     <<"l", "e", "a", "v", "e", "m", "a", "r", "k", "e", "t">>,
     <<"/", "l", "e", "a", "v", "e">>, <<"l", "e", "a", "v", "e">>, <<"/", "l">>}

TrendingVerbs ==
    {<<"/", "t", "r", "e", "n", "d", "i", "n", "g">>, <<"t", "r", "e", "n", "d", "i", "n", "g">>,
     <<"/", "t">>, <<"t">>}

HelpVerbs ==
    {<<"/", "h", "e", "l", "p">>, <<"h", "e", "l", "p">>, <<"/", "h">>, <<"?">>}

ExecuteCommandUsageSwitchesTab(a, command, ext) ==
    LET parts == SplitWhitespace(command)
    IN  IF parts = <<>> THEN a
        ELSE LET cmd == ToLowercase(parts[1])
                 args == Tail(parts)
             IN  CASE cmd \in SearchVerbs ->
                        IF args = <<>>
                        THEN AddLog([a EXCEPT !.current_tab = "Markets"],
                                    "Warning", Msg("Usage: /search <keyword>", NoArg))
                        ELSE SearchMarkets(a, JoinSpace(args), ext)
                   [] cmd \in JoinVerbs ->
                        IF args = <<>>
                        THEN AddLog(a, "Warning", Msg("Usage: /joinmarket <market_id or index>", NoArg))
                        ELSE JoinMarket(a, args[1], ext)
                   [] cmd \in LeaveVerbs ->
                        IF args = <<>>
                        THEN AddLog(a, "Warning", Msg("Usage: /leavemarket <market_id>", NoArg))
                        ELSE LeaveMarket(a, args[1], ext)
                   [] cmd \in TrendingVerbs -> LoadTrendingMarkets(a, ext)
                   [] cmd \in HelpVerbs -> ShowCommandHelp(a)
                   [] OTHER ->
                        AddLog(AddLog(a, "Warning", Msg("Unknown command: {}", cmd)),
                               "Info", Msg("Type /help for available commands", NoArg))

\* App::execute_command
ExecuteCommand(a, command, ext) ==
    LET parts == SplitWhitespace(command)
    IN  IF parts = <<>> THEN a
        ELSE LET cmd == ToLowercase(parts[1])
                 args == Tail(parts)
             IN  CASE cmd \in SearchVerbs ->
                        IF args = <<>>
                        THEN AddLog(a, "Warning", Msg("Usage: /search <keyword>", NoArg))
                        ELSE SearchMarkets(a, JoinSpace(args), ext)
                   [] cmd \in JoinVerbs ->
                        IF args = <<>>
                        THEN AddLog(a, "Warning", Msg("Usage: /joinmarket <market_id or index>", NoArg))
                        ELSE JoinMarket(a, args[1], ext)
                   [] cmd \in LeaveVerbs ->
                        IF args = <<>>
                        THEN AddLog(a, "Warning", Msg("Usage: /leavemarket <market_id>", NoArg))
                        ELSE LeaveMarket(a, args[1], ext)
                   [] cmd \in TrendingVerbs -> LoadTrendingMarkets(a, ext)
                   [] cmd \in HelpVerbs -> ShowCommandHelp(a)
                   [] OTHER ->
                        AddLog(AddLog(a, "Warning", Msg("Unknown command: {}", cmd)),
                               "Info", Msg("Type /help for available commands", NoArg))

-----------------------------------------------------------------------------
(* Key events *)

Key(code) == [code |-> code, ch |-> "", ctrl |-> FALSE]
Char(c) == [code |-> "Char", ch |-> c, ctrl |-> FALSE]
CtrlChar(c) == [code |-> "Char", ch |-> c, ctrl |-> TRUE]
NoKey == Key("None")

IsChar(key, cs) == key.code = "Char" /\ key.ch \in cs

\* command mode with Ctrl+C bound to quitting, as it is in Normal mode
HandleCommandInputQuitsOnCtrlC(a, key, ext) ==
    CASE key.code = "Enter" ->
            ExecuteCommand([a EXCEPT !.command_input = <<>>, !.input_mode = "Normal"],
                           a.command_input, ext)
      [] key.code = "Esc" -> [a EXCEPT !.command_input = <<>>, !.input_mode = "Normal"]
      [] key.code = "Backspace" ->
            [a EXCEPT !.command_input = IF @ = <<>> THEN @ ELSE SubSeq(@, 1, Len(@) - 1)]
      [] key.code = "Char" /\ key.ch = "c" /\ key.ctrl -> [a EXCEPT !.should_quit = TRUE]
      [] key.code = "Char" -> [a EXCEPT !.command_input = Append(@, key.ch)]
      [] OTHER -> a

HandleCommandInputEscKeepsBuffer(a, key, ext) ==
    CASE key.code = "Enter" ->
            ExecuteCommand([a EXCEPT !.command_input = <<>>, !.input_mode = "Normal"],
                           a.command_input, ext)
      [] key.code = "Esc" -> [a EXCEPT !.input_mode = "Normal"]
      [] key.code = "Backspace" ->
            [a EXCEPT !.command_input = IF @ = <<>> THEN @ ELSE SubSeq(@, 1, Len(@) - 1)]
      [] key.code = "Char" -> [a EXCEPT !.command_input = Append(@, key.ch)]
      [] OTHER -> a

\* App::handle_command_input
HandleCommandInput(a, key, ext) ==
    CASE key.code = "Enter" ->
            ExecuteCommand([a EXCEPT !.command_input = <<>>, !.input_mode = "Normal"],
                           a.command_input, ext)
      [] key.code = "Esc" -> [a EXCEPT !.command_input = <<>>, !.input_mode = "Normal"]
      [] key.code = "Backspace" ->
            [a EXCEPT !.command_input = IF @ = <<>> THEN @ ELSE SubSeq(@, 1, Len(@) - 1)]
      [] key.code = "Char" -> [a EXCEPT !.command_input = Append(@, key.ch)]
      [] OTHER -> a

Flip(selection) == IF selection = "No" THEN "Yes" ELSE "No"

ToggleCodes == {"Left", "Right", "Tab", "BackTab"}

HandleQuitConfirmationQuitsOnNo(a, key) ==
    CASE key.code \in ToggleCodes -> [a EXCEPT !.quit_selection = Flip(@)]
      [] key.code = "Enter" -> [a EXCEPT !.should_quit = TRUE, !.input_mode = "Normal"]
      [] key.code = "Esc" -> [a EXCEPT !.input_mode = "Normal"]
      [] OTHER -> a

HandleQuitConfirmationCancelsOnAnyKey(a, key) ==
    CASE key.code \in ToggleCodes -> [a EXCEPT !.quit_selection = Flip(@)]
      [] key.code = "Enter" ->
            [a EXCEPT !.should_quit = IF a.quit_selection = "Yes" THEN TRUE ELSE @,
                      !.input_mode = "Normal"]
      [] key.code = "Esc" -> [a EXCEPT !.input_mode = "Normal"]
      [] OTHER -> [a EXCEPT !.input_mode = "Normal"]

\* App::handle_quit_confirmation
HandleQuitConfirmation(a, key) ==
    CASE key.code \in ToggleCodes -> [a EXCEPT !.quit_selection = Flip(@)]
      [] key.code = "Enter" ->
            [a EXCEPT !.should_quit = IF a.quit_selection = "Yes" THEN TRUE ELSE @,
                      !.input_mode = "Normal"]
      [] key.code = "Esc" -> [a EXCEPT !.input_mode = "Normal"]
      [] OTHER -> a

HandleLeaveConfirmationOpensQuit(a, key, ext) ==
    CASE key.code \in ToggleCodes -> [a EXCEPT !.leave_selection = Flip(@)]
      [] key.code = "Enter" ->
            LET sel == a.selected_watched_market_index
                left == IF a.leave_selection = "Yes" /\ sel < Len(a.watched_markets_info)
                        THEN LET after == LeaveMarket(a, a.watched_markets_info[sel + 1].id, ext)
                             IN  IF sel > 0 /\ sel >= Len(after.watched_markets_info)
                                 THEN [after EXCEPT !.selected_watched_market_index =
                                          IF Len(after.watched_markets_info) = 0 THEN 0
                                          ELSE Len(after.watched_markets_info) - 1]
                                 ELSE after
                        ELSE a
            IN  [left EXCEPT !.input_mode = "Normal"]
      [] key.code = "Esc" -> [a EXCEPT !.input_mode = "Normal"]
      [] OTHER -> IF IsChar(key, {"q", "Q"})
                  THEN [a EXCEPT !.input_mode = "QuitConfirmation", !.quit_selection = "No"]
                  ELSE a

\* App::handle_leave_confirmation
HandleLeaveConfirmation(a, key, ext) ==
    CASE key.code \in ToggleCodes -> [a EXCEPT !.leave_selection = Flip(@)]
      [] key.code = "Enter" ->
            LET sel == a.selected_watched_market_index
                left == IF a.leave_selection = "Yes" /\ sel < Len(a.watched_markets_info)
                        THEN LET after == LeaveMarket(a, a.watched_markets_info[sel + 1].id, ext)
                             IN  IF sel > 0 /\ sel >= Len(after.watched_markets_info)
                                 THEN [after EXCEPT !.selected_watched_market_index =
                                          IF Len(after.watched_markets_info) = 0 THEN 0
                                          ELSE Len(after.watched_markets_info) - 1]
                                 ELSE after
                        ELSE a
            IN  [left EXCEPT !.input_mode = "Normal"]
      [] key.code = "Esc" -> [a EXCEPT !.input_mode = "Normal"]
      [] OTHER -> a

\* DOC_LINE_COUNTS
DocLineCounts == <<38, 37, 40, 35, 38>>

SaturatingSub(x, y) == IF x > y THEN x - y ELSE 0

DigitTab(c) ==
    CASE c = "1" -> "Dashboard" [] c = "2" -> "Orders" [] c = "3" -> "Markets"
      [] c = "4" -> "MarketDetail" [] c = "5" -> "Logs" [] c = "6" -> "Docs"

OpenQuitKeepsSelection(a) == [a EXCEPT !.input_mode = "QuitConfirmation"]

\* "Quit - show confirmation modal"
OpenQuitConfirmation(a) ==
    [a EXCEPT !.input_mode = "QuitConfirmation", !.quit_selection = "No"]

\* the leave dialog opened from every tab
OpenLeaveConfirmationOnAnyTab(a) ==
    IF a.watched_markets_info # <<>>
    THEN [a EXCEPT !.input_mode = "LeaveMarketConfirmation", !.leave_selection = "No"]
    ELSE a

\* "Leave market - show confirmation modal"
OpenLeaveConfirmation(a) ==
    IF a.current_tab = "MarketDetail" /\ a.watched_markets_info # <<>>
    THEN [a EXCEPT !.input_mode = "LeaveMarketConfirmation", !.leave_selection = "No"]
    ELSE a

\* the Docs branch with a back key that leaves the scroll offset as it was
HandleDocsInputKeepsScroll(a, key) ==
    CASE key.code = "Up" \/ IsChar(key, {"k"}) ->
            IF a.docs_viewing_content
            THEN [a EXCEPT !.docs_scroll_offset = SaturatingSub(@, 1)]
            ELSE IF a.docs_selected_section > 0
                 THEN [a EXCEPT !.docs_selected_section = @ - 1]
                 ELSE a
      [] key.code = "Down" \/ IsChar(key, {"j"}) ->
            IF a.docs_viewing_content
            THEN LET counted == IF a.docs_selected_section + 1 \in DOMAIN DocLineCounts
                                THEN DocLineCounts[a.docs_selected_section + 1] ELSE 30
                     max_scroll == SaturatingSub(counted, 10)
                 IN  IF a.docs_scroll_offset < max_scroll
                     THEN [a EXCEPT !.docs_scroll_offset = @ + 1]
                     ELSE a
            ELSE IF a.docs_selected_section < 4
                 THEN [a EXCEPT !.docs_selected_section = @ + 1]
                 ELSE a
      [] key.code = "Enter" ->
            IF ~a.docs_viewing_content
            THEN [a EXCEPT !.docs_viewing_content = TRUE, !.docs_scroll_offset = 0]
            ELSE a
      [] key.code \in {"Backspace", "Left", "Esc"} ->
            IF a.docs_viewing_content
            THEN [a EXCEPT !.docs_viewing_content = FALSE]
            ELSE [a EXCEPT !.current_tab = TabPrev(@)]
      [] key.code \in {"Right", "Tab"} ->
            IF ~a.docs_viewing_content
            THEN [a EXCEPT !.current_tab = TabNext(@)]
            ELSE a
      [] IsChar(key, {"q", "Q"}) -> OpenQuitConfirmation(a)
      [] IsChar(key, {"1", "2", "3", "4", "5", "6"}) ->
            [a EXCEPT !.current_tab = DigitTab(key.ch)]
      [] IsChar(key, {"c"}) /\ key.ctrl -> [a EXCEPT !.should_quit = TRUE]
      [] OTHER -> a

HandleDocsInputAlwaysCycles(a, key) ==
    CASE key.code = "Up" \/ IsChar(key, {"k"}) ->
            IF a.docs_viewing_content
            THEN [a EXCEPT !.docs_scroll_offset = SaturatingSub(@, 1)]
            ELSE IF a.docs_selected_section > 0
                 THEN [a EXCEPT !.docs_selected_section = @ - 1]
                 ELSE a
      [] key.code = "Down" \/ IsChar(key, {"j"}) ->
            IF a.docs_viewing_content
            THEN LET counted == IF a.docs_selected_section + 1 \in DOMAIN DocLineCounts
                                THEN DocLineCounts[a.docs_selected_section + 1] ELSE 30
                     max_scroll == SaturatingSub(counted, 10)
                 IN  IF a.docs_scroll_offset < max_scroll
                     THEN [a EXCEPT !.docs_scroll_offset = @ + 1]
                     ELSE a
            ELSE IF a.docs_selected_section < 4
                 THEN [a EXCEPT !.docs_selected_section = @ + 1]
                 ELSE a
      [] key.code = "Enter" ->
            IF ~a.docs_viewing_content
            THEN [a EXCEPT !.docs_viewing_content = TRUE, !.docs_scroll_offset = 0]
            ELSE a
      [] key.code \in {"Backspace", "Left", "Esc"} ->
            IF a.docs_viewing_content
            THEN [a EXCEPT !.docs_viewing_content = FALSE, !.docs_scroll_offset = 0]
            ELSE [a EXCEPT !.current_tab = TabPrev(@)]
      [] key.code \in {"Right", "Tab"} ->
            [a EXCEPT !.current_tab = TabNext(@)]
      [] IsChar(key, {"q", "Q"}) -> OpenQuitConfirmation(a)
      [] IsChar(key, {"1", "2", "3", "4", "5", "6"}) ->
            [a EXCEPT !.current_tab = DigitTab(key.ch)]
      [] IsChar(key, {"c"}) /\ key.ctrl -> [a EXCEPT !.should_quit = TRUE]
      [] OTHER -> a

\* the Docs branch of App::handle_normal_input
HandleDocsInput(a, key) ==
    CASE key.code = "Up" \/ IsChar(key, {"k"}) ->
            IF a.docs_viewing_content
            THEN [a EXCEPT !.docs_scroll_offset = SaturatingSub(@, 1)]
            ELSE IF a.docs_selected_section > 0
                 THEN [a EXCEPT !.docs_selected_section = @ - 1]
                 ELSE a
      [] key.code = "Down" \/ IsChar(key, {"j"}) ->
            IF a.docs_viewing_content
            THEN LET counted == IF a.docs_selected_section + 1 \in DOMAIN DocLineCounts
                                THEN DocLineCounts[a.docs_selected_section + 1] ELSE 30
                     max_scroll == SaturatingSub(counted, 10)
                 IN  IF a.docs_scroll_offset < max_scroll
                     THEN [a EXCEPT !.docs_scroll_offset = @ + 1]
                     ELSE a
            ELSE IF a.docs_selected_section < 4
                 THEN [a EXCEPT !.docs_selected_section = @ + 1]
                 ELSE a
      [] key.code = "Enter" ->
            IF ~a.docs_viewing_content
            THEN [a EXCEPT !.docs_viewing_content = TRUE, !.docs_scroll_offset = 0]
            ELSE a
      [] key.code \in {"Backspace", "Left", "Esc"} ->
            IF a.docs_viewing_content
            THEN [a EXCEPT !.docs_viewing_content = FALSE, !.docs_scroll_offset = 0]
            ELSE [a EXCEPT !.current_tab = TabPrev(@)]
      [] key.code \in {"Right", "Tab"} ->
            IF ~a.docs_viewing_content
            THEN [a EXCEPT !.current_tab = TabNext(@)]
            ELSE a
      [] IsChar(key, {"q", "Q"}) -> OpenQuitConfirmation(a)
      [] IsChar(key, {"1", "2", "3", "4", "5", "6"}) ->
            [a EXCEPT !.current_tab = DigitTab(key.ch)]
      [] IsChar(key, {"c"}) /\ key.ctrl -> [a EXCEPT !.should_quit = TRUE]
      [] OTHER -> a

KeyboardHelp ==
    <<"--- Keyboard Shortcuts ---", ":        : Enter command mode",
      "S        : Quick search markets", "T        : Load trending markets",
      "Tab/Left/Right : Navigate tabs", "Up/Down  : Navigate markets list",
      "Enter    : Join selected market", "P        : Pause bot", "R        : Resume bot",
      "!        : PANIC mode", "Q        : Quit">>

\* App::handle_normal_input
HandleNormalInput(a, key, ext) ==
    IF a.current_tab = "Docs" THEN HandleDocsInput(a, key)
    ELSE
    CASE IsChar(key, {":", "/"}) ->
            [a EXCEPT !.input_mode = "Command", !.command_input = <<"/">>]
      [] IsChar(key, {"s", "S"}) ->
            [a EXCEPT !.input_mode = "Command",
                      !.command_input = <<"/", "s", "e", "a", "r", "c", "h", " ">>,
                      !.current_tab = "Markets"]
      [] IsChar(key, {"t", "T"}) -> LoadTrendingMarkets(a, ext)
      [] key.code = "Up" \/ IsChar(key, {"k"}) ->
            IF a.current_tab = "Markets" /\ a.selected_market_index > 0
            THEN [a EXCEPT !.selected_market_index = @ - 1]
            ELSE IF a.current_tab = "MarketDetail" /\ a.selected_watched_market_index > 0
                 THEN [a EXCEPT !.selected_watched_market_index = @ - 1]
                 ELSE a
      [] key.code = "Down" \/ IsChar(key, {"j"}) ->
            IF a.current_tab = "Markets"
               /\ a.selected_market_index < SaturatingSub(Len(a.available_markets), 1)
            THEN [a EXCEPT !.selected_market_index = @ + 1]
            ELSE IF a.current_tab = "MarketDetail"
                    /\ a.selected_watched_market_index
                         < SaturatingSub(Len(a.watched_markets_info), 1)
                 THEN [a EXCEPT !.selected_watched_market_index = @ + 1]
                 ELSE a
      [] key.code = "Enter" ->
            IF a.current_tab = "Markets" /\ a.available_markets # <<>>
            THEN JoinMarket(a, UsizeToString(a.selected_market_index + 1), ext)
            ELSE a
      [] key.code \in {"Delete", "Backspace"} -> OpenLeaveConfirmation(a)
      [] IsChar(key, {"q", "Q"}) -> OpenQuitConfirmation(a)
      [] key.code \in {"Tab", "Right"} -> [a EXCEPT !.current_tab = TabNext(@)]
      [] key.code \in {"BackTab", "Left"} -> [a EXCEPT !.current_tab = TabPrev(@)]
      [] IsChar(key, {"1", "2", "3", "4", "5", "6"}) ->
            [a EXCEPT !.current_tab = DigitTab(key.ch)]
      [] IsChar(key, {"p", "P"}) ->
            AddLog([EnginePaused(a) EXCEPT !.is_paused = TRUE],
                   "Warning", Msg("Bot PAUSED - trading disabled", NoArg))
      [] IsChar(key, {"r", "R"}) ->
            AddLog([EngineResumed(a) EXCEPT !.is_paused = FALSE],
                   "Success", Msg("Bot RESUMED - trading enabled", NoArg))
      [] IsChar(key, {"!"}) ->
            [AddLog(AddLog(EnginePaused(AddLog(a,
                "Error", Msg("PANIC MODE ACTIVATED", NoArg))),
                "Error", Msg("Cancelled {} orders", UsizeToString(0))),
                "Error", Msg("Bot is now PAUSED", NoArg))
             EXCEPT !.is_paused = TRUE]
      [] IsChar(key, {"e", "E"}) ->
            AddLog(a, "Info", Msg("Export feature coming soon...", NoArg))
      [] IsChar(key, {"h", "H"}) -> AddInfoLines(a, KeyboardHelp)
      [] IsChar(key, {"c"}) /\ key.ctrl -> [a EXCEPT !.should_quit = TRUE]
      [] OTHER -> a

\* App::handle_event; every handler starts with no collaborator call made
HandleEvent(a, key, ext) ==
    LET fresh == [a EXCEPT !.calls = <<>>, !.fetched = <<>>]
    IN  CASE a.input_mode = "Command" -> HandleCommandInput(fresh, key, ext)
          [] a.input_mode = "QuitConfirmation" -> HandleQuitConfirmation(fresh, key)
          [] a.input_mode = "LeaveMarketConfirmation" -> HandleLeaveConfirmation(fresh, key, ext)
          [] a.input_mode = "Normal" -> HandleNormalInput(fresh, key, ext)

-----------------------------------------------------------------------------
(* App::new and App::init_watched_markets *)

Startup ==
    <<"TUI initialized successfully", "Press ':' to enter command mode",
      "Press 'S' to search markets", "Loading watched markets...">>

\* App::new
NewApp ==
    AddInfoLines(
        [current_tab |-> "Dashboard", should_quit |-> FALSE, logs |-> <<>>,
         is_paused |-> FALSE, input_mode |-> "Normal", command_input |-> <<>>,
         quit_selection |-> "No", leave_selection |-> "No",
         available_markets |-> <<>>, joined_markets |-> <<>>,
         watched_markets_info |-> <<>>, selected_market_index |-> 0,
         selected_watched_market_index |-> 0, is_loading_markets |-> FALSE,
         docs_selected_section |-> 0, docs_viewing_content |-> FALSE,
         docs_scroll_offset |-> 0,
         db_rows |-> [id \in AllIds |-> "none"], engine_paused |-> FALSE,
         market_analysis_data |-> NoAnalysisData,
         log_count |-> 0, calls |-> <<>>, last_refresh |-> 0, fetched |-> <<>>],
        Startup)

\* App::init_watched_markets, with the rows load_watched_markets answered
InitWatchedMarkets(a, load) ==
    IF load.ok
    THEN AddLog([a EXCEPT !.joined_markets = IdsOf(load.markets),
                          !.watched_markets_info = load.markets,
                          !.db_rows = [id \in AllIds |->
                                          IF Contains(IdsOf(load.markets), id)
                                          THEN "active" ELSE "none"]],
                "Success", Msg("Loaded {} watched markets", UsizeToString(Len(load.markets))))
    ELSE AddLog(a, "Error", Msg("Failed to load watched markets: {}", NoArg))

\* k executions of show_command_help on an App whose log has not wrapped yet:
\* the log is the last MaxLogs entries of the old log followed by k listings
HelpTimes(a, k) ==
    LET old == Len(a.logs)
        total == old + k * Len(CommandHelp)
        kept == IF total > MaxLogs THEN MaxLogs ELSE total
        entry(i) == IF i <= old THEN a.logs[i]
                    ELSE LogEntry("Info",
                                  Msg(CommandHelp[((i - old - 1) % Len(CommandHelp)) + 1], NoArg),
                                  a.log_count + (i - old))
    IN  [a EXCEPT !.logs = [j \in 1..kept |-> entry(total - kept + j)],
                  !.log_count = @ + k * Len(CommandHelp)]

\* the App when the observed run starts: created, its watchlist loaded, and the
\* help listing shown `helps` times
StartedApp(load, helps) == HelpTimes(InitWatchedMarkets(NewApp, load), helps)

-----------------------------------------------------------------------------
(* SpikeDetector *)

DetMarkets == {idA, id2}

NoHistory == [present |-> FALSE, last_volume |-> 0, last_timestamp |-> 0]

VolumeHistory(volume, timestamp) ==
    [present |-> TRUE, last_volume |-> volume, last_timestamp |-> timestamp]

NoEvent ==
    [some |-> FALSE, market_id |-> <<>>, volume_delta |-> 0, time_delta |-> 0, timestamp |-> 0]

\* VolumeVelocityEvent; its velocity is volume_delta / time_delta
VolumeVelocityEvent(market_id, volume_delta, time_delta, timestamp) ==
    [some |-> TRUE, market_id |-> market_id, volume_delta |-> volume_delta,
     time_delta |-> time_delta, timestamp |-> timestamp]

VelocityExceedsOrEquals(volume_delta, time_delta, threshold) ==
    Abs(volume_delta) >= threshold * time_delta

\* (volume_delta / time_delta).abs() > threshold, for time_delta > 0
VelocityExceeds(volume_delta, time_delta, threshold) ==
    Abs(volume_delta) > threshold * time_delta

\* the event check_volume_velocity computes from the stored sample
DetectEvent(history, market_id, current_volume, at, threshold) ==
    IF history[market_id].present
    THEN LET volume_delta == current_volume - history[market_id].last_volume
             time_delta == at - history[market_id].last_timestamp
         IN  IF time_delta > 0
             THEN IF VelocityExceeds(volume_delta, time_delta, threshold)
                  THEN VolumeVelocityEvent(market_id, volume_delta, time_delta, at)
                  ELSE NoEvent
             ELSE NoEvent
    ELSE NoEvent

\* what check_volume_velocity returns: Err when saving the event failed,
\* Ok(event) otherwise
VelocityResult(event, save_ok) ==
    IF event.some /\ ~save_ok
    THEN [kind |-> "Err", event |-> NoEvent]
    ELSE [kind |-> "Ok", event |-> event]

UpdateHistoryUnlessStale(history, market_id, current_volume, at) ==
    IF history[market_id].present /\ at <= history[market_id].last_timestamp
    THEN history
    ELSE [history EXCEPT ![market_id] = VolumeHistory(current_volume, at)]

\* "Update history": volume_history.insert(market_id, VolumeHistory { .. })
UpdateHistory(history, market_id, current_volume, at) ==
    [history EXCEPT ![market_id] = VolumeHistory(current_volume, at)]

CalculateOrderBookImbalanceUnguarded(bids_volume, asks_volume) ==
    [num |-> bids_volume - asks_volume, den |-> bids_volume + asks_volume]

\* SpikeDetector::calculate_order_book_imbalance, as the fraction num / den
CalculateOrderBookImbalance(bids_volume, asks_volume) ==
    LET total_volume == bids_volume + asks_volume
    IN  IF total_volume = 0 THEN [num |-> 0, den |-> 1]
        ELSE [num |-> bids_volume - asks_volume, den |-> total_volume]

-----------------------------------------------------------------------------
(* Initial states *)

Start(a) ==
    /\ current_tab = a.current_tab
    /\ should_quit = a.should_quit
    /\ logs = a.logs
    /\ is_paused = a.is_paused
    /\ input_mode = a.input_mode
    /\ command_input = a.command_input
    /\ quit_selection = a.quit_selection
    /\ leave_selection = a.leave_selection
    /\ available_markets = a.available_markets
    /\ joined_markets = a.joined_markets
    /\ watched_markets_info = a.watched_markets_info
    /\ selected_market_index = a.selected_market_index
    /\ selected_watched_market_index = a.selected_watched_market_index
    /\ is_loading_markets = a.is_loading_markets
    /\ docs_selected_section = a.docs_selected_section
    /\ docs_viewing_content = a.docs_viewing_content
    /\ docs_scroll_offset = a.docs_scroll_offset
    /\ db_rows = a.db_rows
    /\ engine_paused = a.engine_paused
    /\ log_count = a.log_count
    /\ calls = a.calls
    /\ market_analysis_data = a.market_analysis_data
    /\ last_refresh = a.last_refresh
    /\ fetched = a.fetched
    /\ clock = 0
    /\ refreshed_at = <<>>
    /\ last_order_id = None
    /\ order_calls = [t \in Callers |-> Idle]
    /\ pc = "draw"
    /\ iteration = <<>>
    /\ since_quit = <<>>
    /\ last = [op |-> "start", line |-> <<>>, key |-> NoKey, pre |-> a]
    /\ n_ops = 0
    /\ quit_script = "none"

\* Config::from_env: VOLUME_VELOCITY_THRESHOLD defaults to 1000.0
DefaultVelocityThreshold == 1000

NoObi == [num |-> 0, den |-> 1]

NoResult == [kind |-> "None", event |-> NoEvent, obi |-> NoObi]

NoCall ==
    [op |-> "none", market_id |-> <<>>, volume |-> 0, at |-> 0, save_ok |-> TRUE,
     before |-> [m \in DetMarkets |-> NoHistory], bids |-> 0, asks |-> 0]

\* SpikeDetector::new with the given threshold
NewDetector(threshold) ==
    /\ volume_history = [m \in DetMarkets |-> NoHistory]
    /\ volume_velocity_threshold = threshold
    /\ now = 0
    /\ det_result = NoResult
    /\ det_call = NoCall

\* thresholds the detector is configured with in the detector specification
Thresholds == {1, 2}

InitWatch ==
    \E load \in LoadOutcomes, helps \in {0, PriorHelps} :
        Start(StartedApp(load, helps)) /\ NewDetector(DefaultVelocityThreshold)

InitModes ==
    \E load \in LoadOutcomes :
        Start(StartedApp(load, 0)) /\ NewDetector(DefaultVelocityThreshold)

InitDetector ==
    \E threshold \in Thresholds :
        Start(StartedApp([ok |-> TRUE, markets |-> <<>>], 0)) /\ NewDetector(threshold)

-----------------------------------------------------------------------------
(* Actions of the dashboard *)

QuitKeys == {Char("q"), Char("Q")}

\* how far the last keys follow "quit-key from Normal, then one toggle, then
\* Enter" or "quit-key from Normal, then Escape"
NextQuitScript(pre, key, script) ==
    CASE pre.input_mode = "Normal" /\ key \in QuitKeys -> "q"
      [] script = "q" /\ key.code \in ToggleCodes -> "q,toggle"
      [] script = "q,toggle" /\ key.code = "Enter" -> "q,toggle,Enter"
      [] script = "q" /\ key.code = "Esc" -> "q,Esc"
      [] OTHER -> "none"

\* at most MaxOps operations of a run write to the log
Within(r) == r.log_count # log_count => n_ops < MaxOps

\* the App becomes r, and the operation is recorded
Handled(op, line, key, r) ==
    /\ Commit(r)
    /\ last' = [op |-> op, line |-> line, key |-> key, pre |-> App]
    /\ n_ops' = IF r.log_count # log_count THEN n_ops + 1 ELSE n_ops
    /\ quit_script' = NextQuitScript(App, key, quit_script)
    /\ UNCHANGED <<engineVars, detVars, timeVars>>

Step(op, line, key, r) == Handled(op, line, key, r) /\ UNCHANGED loopVars

\* one iteration of run_app that received a key: handle_event runs unless the
\* loop has ended
KeyEvent(keys, exts) ==
    /\ ~should_quit
    /\ \E key \in keys, ext \in exts :
          LET r == HandleEvent(App, key, ext)
          IN  Within(r) /\ Step("key", <<>>, key, r)

\* the operator enters command mode from Normal (':' is not bound on the Docs
\* tab), types `line` and presses Enter: the keys before Enter only edit
\* input_mode and command_input (app.rs:649-652, 358-363), Enter runs
\* handle_command_input
SubmitCommand(lines, exts) ==
    /\ ~should_quit
    /\ input_mode = "Normal"
    /\ current_tab # "Docs"
    /\ \E line \in lines, ext \in exts :
          LET typed == [App EXCEPT !.input_mode = "Command", !.command_input = line]
              r == HandleEvent(typed, Key("Enter"), ext)
          IN  Within(r) /\ Step("command", line, Key("Enter"), r)

-----------------------------------------------------------------------------
(* The watchlist specification: joins, leaves, searches and trending loads *)

JoinLines == {<<"/", "j", " ">> \o ref : ref \in {<<"1">>, <<"2">>, idA, idX}}

LeaveLines == {<<"/", "l", " ">> \o id : id \in AllIds}

FetchLines == {<<"/", "s", " ", "k">>, <<"/", "t">>}

JoinCommand == SubmitCommand(JoinLines, DbExts)

LeaveCommand == SubmitCommand(LeaveLines, DbExts)

FetchCommand == SubmitCommand(FetchLines, FetchExts)

EnterKey == input_mode = "Normal" /\ KeyEvent({Key("Enter")}, DbExts)

\* Down moves the selection in the search results
DownKey == input_mode = "Normal" /\ KeyEvent({Key("Down")}, DbExts)

NextWatch == JoinCommand \/ LeaveCommand \/ FetchCommand \/ EnterKey \/ DownKey

SpecWatch == InitWatch /\ [][NextWatch]_vars

-----------------------------------------------------------------------------
(* The mode specification: key events through the four input modes *)

ModeKeys ==
    QuitKeys \cup {Key(c) : c \in ToggleCodes \cup {"Enter", "Esc", "Delete", "Backspace"}}
    \cup {Char(c) : c \in {"1", "2", "3", "4", "5", "6", "x"}} \cup {CtrlChar("c")}

NormalInput == input_mode = "Normal" /\ KeyEvent(ModeKeys, DbExts)

QuitConfirmationInput == input_mode = "QuitConfirmation" /\ KeyEvent(ModeKeys, DbExts)

LeaveConfirmationInput == input_mode = "LeaveMarketConfirmation" /\ KeyEvent(ModeKeys, DbExts)

NextModes == NormalInput \/ QuitConfirmationInput \/ LeaveConfirmationInput

SpecModes == InitModes /\ [][NextModes]_vars

-----------------------------------------------------------------------------
(* The log specification: one add_log call per step *)

\* 'e' in Normal mode logs one Info line and does nothing else
ExportKey ==
    /\ input_mode = "Normal"
    /\ log_count < MaxAdds
    /\ ~should_quit
    /\ LET r == HandleEvent(App, Char("e"), [db_ok |-> TRUE, fetch |-> [ok |-> FALSE, markets |-> <<>>]])
       IN  Step("key", <<>>, Char("e"), [r EXCEPT !.calls = <<>>])

NextLog == ExportKey

SpecLog == InitModes /\ [][NextLog]_vars

-----------------------------------------------------------------------------
(* The detector specification: the SpikeDetector called with any sample, at
   any clock reading (Utc::now is a wall clock: it may stand still or step
   back between two calls) *)

\* SpikeDetector::check_volume_velocity
CheckVolumeVelocity ==
    \E market_id \in DetMarkets, current_volume \in 0..MaxVolume, at \in 0..MaxTime,
       save_ok \in BOOLEAN :
        LET event == DetectEvent(volume_history, market_id, current_volume, at,
                                 volume_velocity_threshold)
            result == VelocityResult(event, save_ok)
        IN  /\ now' = at
            /\ volume_history' = UpdateHistory(volume_history, market_id, current_volume, at)
            /\ det_result' = [kind |-> result.kind, event |-> result.event, obi |-> NoObi]
            /\ det_call' = [op |-> "check_volume_velocity", market_id |-> market_id,
                            volume |-> current_volume, at |-> at, save_ok |-> save_ok,
                            before |-> volume_history, bids |-> 0, asks |-> 0]
            /\ UNCHANGED <<engineVars, appVars, timeVars, loopVars, last, n_ops, quit_script,
                           volume_velocity_threshold>>

\* a call of SpikeDetector::calculate_order_book_imbalance
OrderBookImbalance ==
    \E bids_volume \in 0..MaxVolume, asks_volume \in 0..MaxVolume :
        /\ det_result' = [kind |-> "Obi", event |-> NoEvent,
                          obi |-> CalculateOrderBookImbalance(bids_volume, asks_volume)]
        /\ det_call' = [op |-> "calculate_order_book_imbalance", market_id |-> <<>>,
                        volume |-> 0, at |-> now, save_ok |-> TRUE,
                        before |-> volume_history, bids |-> bids_volume, asks |-> asks_volume]
        /\ UNCHANGED <<engineVars, appVars, timeVars, loopVars, last, n_ops, quit_script, volume_history,
                       volume_velocity_threshold, now>>

NextDetector == CheckVolumeVelocity \/ OrderBookImbalance

SpecDetector == InitDetector /\ [][NextDetector]_vars

-----------------------------------------------------------------------------
(* The command-entry specification: command lines typed key by key *)

\* the lines the operator types; each prefix of one is a buffer content
TypedLines ==
    {<<"/", "j", " ", "1">>, <<"/", "l", " ", "a">>,
     <<"/", "s", "e", "a", "r", "c", "h", " ", "k">>, <<"/", "x">>, <<"/", "j">>}

IsPrefix(p, line) == Len(p) <= Len(line) /\ SubSeq(line, 1, Len(p)) = p

\* ':' and '/' open the command line, 's' and 'S' open it on "/search "
OpenCommand ==
    /\ input_mode = "Normal"
    /\ KeyEvent({Char(":"), Char("/"), Char("s"), Char("S")}, DbExts)

\* the next character of a line of TypedLines
TypeChar ==
    /\ input_mode = "Command"
    /\ KeyEvent({Char(line[Len(command_input) + 1]) :
                    line \in {l \in TypedLines : /\ Len(command_input) < Len(l)
                                                 /\ IsPrefix(command_input, l)}},
                DbExts)

\* Backspace, and a key the command line ignores
EditCommand == input_mode = "Command" /\ KeyEvent({Key("Backspace"), Key("Left")}, DbExts)

\* Enter; at most MaxSubmits submitted lines of a run write to the log
SubmitKey ==
    /\ input_mode = "Command"
    /\ n_ops < MaxSubmits
    /\ KeyEvent({Key("Enter")}, Exts)

CancelKey == input_mode = "Command" /\ KeyEvent({Key("Esc")}, DbExts)

NextCommand == OpenCommand \/ TypeChar \/ EditCommand \/ SubmitKey \/ CancelKey

\* the App as started, or after an earlier search that found two markets
InitCommand ==
    \E load \in LoadOutcomes, searched \in BOOLEAN :
        /\ Start(IF searched
                 THEN SearchMarkets(StartedApp(load, 0), <<"k">>,
                                    [db_ok |-> TRUE,
                                     fetch |-> [ok |-> TRUE, markets |-> <<m2, mA>>]])
                 ELSE StartedApp(load, 0))
        /\ NewDetector(DefaultVelocityThreshold)

SpecCommand == InitCommand /\ [][NextCommand]_vars

-----------------------------------------------------------------------------
(* The interpreter specification: whole command lines, in either letter case *)

\* str::to_uppercase, on ASCII: how an operator may type a verb
ToUppercase(s) ==
    [i \in 1..Len(s) |->
        IF \E k \in 1..26 : LowerCase[k] = s[i]
        THEN UpperCase[CHOOSE k \in 1..26 : LowerCase[k] = s[i]]
        ELSE s[i]]

\* the spellings show_command_help and the usage messages give to the user
AdvertisedVerbs ==
    {<<"/", "s", "e", "a", "r", "c", "h">>,
     <<"/", "t", "r", "e", "n", "d", "i", "n", "g">>,
     <<"/", "j", "o", "i", "n", "m", "a", "r", "k", "e", "t">>,
     <<"/", "l", "e", "a", "v", "e", "m", "a", "r", "k", "e", "t">>,
     <<"/", "h", "e", "l", "p">>}

\* each advertised verb, in lower and in upper case, with an argument
AdvertisedLines ==
    {verb \o <<" ", "a">> : verb \in AdvertisedVerbs \cup {ToUppercase(v) : v \in AdvertisedVerbs}}

\* search, join and leave verbs of execute_command without an argument
MissingArgLines ==
    {<<"/", "s", "e", "a", "r", "c", "h">>, <<"/", "S">>, <<"s", "e", "a", "r", "c", "h">>,
     <<"/", "j", "o", "i", "n", "m", "a", "r", "k", "e", "t">>, <<"/", "J">>, <<"/", "l", "e", "a", "v", "e">>, <<"/", "l">>}

\* lines whose first word is no verb of execute_command
UnknownLines == {<<"/", "x">>, <<"/", "X", " ", "y">>, <<"/", "l", "e", "a", "v", "e", "m", "a", "r", "k", "e", "t">>}

AdvertisedCommand == SubmitCommand(AdvertisedLines, Exts)

RejectedCommand == SubmitCommand(MissingArgLines \cup UnknownLines, DbExts)

NextInterpreter == AdvertisedCommand \/ RejectedCommand

\* two markets watched at start, the log short or already full
InitInterpreter ==
    \E helps \in {0, PriorHelps} :
        /\ Start(StartedApp([ok |-> TRUE, markets |-> <<m2, mA>>], helps))
        /\ NewDetector(DefaultVelocityThreshold)

SpecInterpreter == InitInterpreter /\ [][NextInterpreter]_vars

-----------------------------------------------------------------------------
(* The refresh specification: run_app calls refresh_data after every iteration
   that did not quit, with or without an event, while the monotonic clock runs *)

\* time that passes between two steps of the loop
TickSteps == {249, 250}

\* time between the elapsed() check and Instant::now()
StampDelays == {0, 1}

\* time passes
Elapsing(steps) ==
    \E d \in steps :
        /\ clock + d <= MaxClock
        /\ clock' = clock + d
        /\ UNCHANGED <<engineVars, appVars, detVars, refreshed_at, last, n_ops, quit_script>>

Elapse == Elapsing(TickSteps)

Tick == Elapse /\ UNCHANGED loopVars

\* the check time of the last execution that got past the throttle, else the creation
LastPassed == IF refreshed_at = <<>> THEN 0 ELSE refreshed_at[Len(refreshed_at)]

\* the numbers next_random returns to one refresh: every market moves up by
\* the largest step, or down by it, and no velocity event is drawn
RefreshDraws ==
    {[rnd |-> RandomScale, spike |-> 0, rnd2 |-> RandomScale],
     [rnd |-> 0, spike |-> 0, rnd2 |-> 0]}

\* one execution of refresh_data
Refreshing ==
    \E delay \in StampDelays, draw \in RefreshDraws :
        LET r == RefreshData([App EXCEPT !.calls = <<>>, !.fetched = <<>>],
                             clock, clock + delay, [id \in AllIds |-> draw])
            passed == r.calls # <<>>
        IN  /\ clock + delay <= MaxClock
            /\ passed \/ delay = 0
            /\ Commit(r)
            /\ clock' = clock + delay
            /\ refreshed_at' = IF passed THEN Append(refreshed_at, clock) ELSE refreshed_at
            /\ last' = [op |-> IF clock - LastPassed < RefreshInterval
                                  THEN "refresh_sooner" ELSE "refresh",
                        line |-> <<>>, key |-> NoKey, pre |-> App]
            /\ UNCHANGED <<engineVars, detVars, n_ops, quit_script>>

\* the refresh_data call at the end of an iteration of run_app
Refresh == ~should_quit /\ Refreshing /\ UNCHANGED loopVars

\* 'p' and 'r' pause and resume the engine
PauseKey == input_mode = "Normal" /\ KeyEvent({Char("p"), Char("r"), Char("!")}, DbExts)

NextRefresh == Tick \/ Refresh \/ PauseKey

InitRefresh ==
    \E load \in LoadOutcomes :
        Start(StartedApp(load, 0)) /\ NewDetector(DefaultVelocityThreshold)

SpecRefresh == InitRefresh /\ [][NextRefresh]_vars

-----------------------------------------------------------------------------
(* The selection specification: the highlighted positions of the search
   results and of the watchlist, under navigation, requests and leaves *)

\* the collaborators' answers to a key that reaches none of them
QuietExts == {e \in DbExts : e.db_ok}

SelectKeys == {Key("Up"), Key("Down"), Key("Delete"), Char("3"), Char("4")}

\* navigation, tab choice and the opening of the leave dialog in Normal mode
SelectInput == input_mode = "Normal" /\ KeyEvent(SelectKeys, QuietExts)

\* 't' loads the trending markets
TrendingKey == input_mode = "Normal" /\ KeyEvent({Char("t")}, FetchExts)

\* the leave dialog: toggle, confirm, cancel
LeaveDialogInput ==
    /\ input_mode = "LeaveMarketConfirmation"
    /\ KeyEvent({Key("Tab"), Key("Enter"), Key("Esc")}, DbExts)

NextSelect == SelectInput \/ TrendingKey \/ LeaveDialogInput \/ LeaveCommand \/ FetchCommand

SpecSelect == InitModes /\ [][NextSelect]_vars

-----------------------------------------------------------------------------
(* The store specification: joins and leaves whose calls of the store all
   succeed, the watchlist having been loaded from the store at the start *)

\* the App after a start that loaded `markets`, and after one search when `searched`
InitStore ==
    \E load \in {l \in LoadOutcomes : l.ok}, searched \in BOOLEAN :
        /\ Start(IF searched
                 THEN SearchMarkets(StartedApp(load, 0), <<"k">>,
                                    [db_ok |-> TRUE,
                                     fetch |-> [ok |-> TRUE, markets |-> <<m2, mA>>]])
                 ELSE StartedApp(load, 0))
        /\ NewDetector(DefaultVelocityThreshold)

StoredJoin == SubmitCommand(JoinLines, QuietExts)

StoredLeave == SubmitCommand(LeaveLines, QuietExts)

StoredEnter == input_mode = "Normal" /\ KeyEvent({Key("Enter"), Key("Down")}, QuietExts)

NextStore == StoredJoin \/ StoredLeave \/ StoredEnter \/ FetchCommand

SpecStore == InitStore /\ [][NextStore]_vars

-----------------------------------------------------------------------------
(* The keyboard specification: the keys of the dashboard pressed in every
   mode and on every tab, the Docs tab included *)

\* Tab, Shift+Tab, Left, Right
TabCycleKeys == {Key("Tab"), Key("BackTab"), Key("Left"), Key("Right")}

\* the keys pressed in Normal mode; Home and 'x' are bound nowhere
NormalKeys ==
    TabCycleKeys
    \cup {Key(c) : c \in {"Enter", "Esc", "Delete", "Up", "Home"}}
    \cup {Char(c) : c \in {"1", "4", "6", "q", ":", "s", "p", "r", "!", "t", "x"}}

\* the keys pressed inside a dialog and in command mode
ModalKeys ==
    TabCycleKeys
    \cup {Key(c) : c \in {"Enter", "Esc", "Delete", "Backspace", "Home"}}
    \cup {Char(c) : c \in {"1", "q", ":", "s"}}

\* the buffer as ':' or '/' and as 's' leave it
OpenedBuffers == {<<"/">>, <<"/", "s", "e", "a", "r", "c", "h", " ">>}

\* at most MaxSubmits keys of a run of the keyboard specification write to the log
NormalKey ==
    /\ input_mode = "Normal"
    /\ KeyEvent(NormalKeys, QuietExts)
    /\ n_ops' <= MaxSubmits

\* command mode: the operator edits and submits the buffer only as it was
\* opened, so that at most one character is typed or erased
CommandKey ==
    /\ input_mode = "Command"
    /\ KeyEvent(ModalKeys, QuietExts)
    /\ last'.key.code \in {"Char", "Backspace", "Enter"} => command_input \in OpenedBuffers
    /\ n_ops' <= MaxSubmits

QuitDialogKey == input_mode = "QuitConfirmation" /\ KeyEvent(ModalKeys, QuietExts)

LeaveDialogKeyEvent ==
    /\ input_mode = "LeaveMarketConfirmation"
    /\ KeyEvent(ModalKeys, QuietExts)
    /\ n_ops' <= MaxSubmits

NextKeys == NormalKey \/ CommandKey \/ QuitDialogKey \/ LeaveDialogKeyEvent

\* the watchlist was loaded with two markets
InitKeys ==
    /\ Start(StartedApp([ok |-> TRUE, markets |-> <<m2, mA>>], 0))
    /\ NewDetector(DefaultVelocityThreshold)

SpecKeys == InitKeys /\ [][NextKeys]_vars

-----------------------------------------------------------------------------
(* The loop specification: the body of run_app statement by statement: draw,
   poll for at most one event and handle it, test should_quit, refresh *)

LoopKeys == {Char("q"), Key("Tab"), Key("Enter"), CtrlChar("c"), Char("p")}

\* the statement `step` has run
Ran(step, next) ==
    /\ pc' = next
    /\ iteration' = IF step = "draw" THEN <<"draw">> ELSE Append(iteration, step)
    /\ since_quit' = IF should_quit THEN Append(since_quit, step) ELSE since_quit

AfterCheckIgnoresQuit(quit) == "refresh"

\* `if app.should_quit { break; }`
AfterCheck(quit) == IF quit THEN "done" ELSE "refresh"

\* terminal.draw
LoopDraw ==
    /\ pc = "draw"
    /\ Ran("draw", "poll")
    /\ UNCHANGED <<engineVars, appVars, detVars, timeVars, last, n_ops, quit_script>>

\* event_handler.next() answered a key press: handle_event runs
LoopEvent ==
    /\ pc = "poll"
    /\ \E key \in LoopKeys, ext \in QuietExts :
          LET r == HandleEvent(App, key, ext)
          IN  Within(r) /\ Handled("key", <<>>, key, r)
    /\ Ran("event", "check")

\* event_handler.next() answered None: the tick went by without a key press
LoopNoEvent ==
    /\ pc = "poll"
    /\ Ran("poll", "check")
    /\ UNCHANGED <<engineVars, appVars, detVars, timeVars, last, n_ops, quit_script>>

LoopCheck ==
    /\ pc = "check"
    /\ Ran("check", AfterCheck(should_quit))
    /\ UNCHANGED <<engineVars, appVars, detVars, timeVars, last, n_ops, quit_script>>

\* app.refresh_data().await
LoopRefresh ==
    /\ pc = "refresh"
    /\ Refreshing
    /\ Ran("refresh", "draw")

\* time passes while the loop draws, polls and awaits
LoopTick == pc # "done" /\ Elapse /\ UNCHANGED loopVars

NextLoop == LoopDraw \/ LoopEvent \/ LoopNoEvent \/ LoopCheck \/ LoopRefresh \/ LoopTick

InitLoop ==
    /\ Start(StartedApp([ok |-> TRUE, markets |-> <<>>], 0))
    /\ NewDetector(DefaultVelocityThreshold)

SpecLoop == InitLoop /\ [][NextLoop]_vars

-----------------------------------------------------------------------------
(* SpecDocs: the keys of the Docs tab, pressed in Normal mode on every tab *)

DocsKeys ==
    {Char("6"), Char("1"), Key("Up"), Key("Down"), Char("j"), Key("Enter"),
     Key("Backspace"), Key("Left"), Key("Esc"), Key("Right")}

DocsKey == input_mode = "Normal" /\ KeyEvent(DocsKeys, QuietExts)

NextDocs == DocsKey

SpecDocs == InitLoop /\ [][NextDocs]_vars

-----------------------------------------------------------------------------
(* SpecSimulate and SpecSpikes: simulate_market_data applied tick after tick *)
(* to one watched market                                                     *)

InitSimulate ==
    /\ Start(StartedApp([ok |-> TRUE, markets |-> <<mA>>], 0))
    /\ NewDetector(DefaultVelocityThreshold)

\* the numbers next_random returns to one market in one tick: the extremes
\* and the middle of [0, 1], and no velocity event
SimulationDraws ==
    {[rnd |-> RandomScale, spike |-> 0, rnd2 |-> RandomScale],
     [rnd |-> 0, spike |-> 0, rnd2 |-> 0],
     [rnd |-> RandomScale, spike |-> 0, rnd2 |-> 0],
     [rnd |-> RandomScale \div 2, spike |-> 0, rnd2 |-> RandomScale \div 2]}

\* a rising velocity, with and without a velocity event
SpikeDraws ==
    {[rnd |-> RandomScale, spike |-> RandomScale, rnd2 |-> RandomScale \div 2],
     [rnd |-> RandomScale, spike |-> 0, rnd2 |-> RandomScale \div 2]}

Simulating(draws) ==
    \E draw \in draws :
        Step("simulate", draw, NoKey,
             SimulateMarketData(App, [id \in AllIds |-> draw], clock))

SimulationTick == Simulating(SimulationDraws)

SpikeTick == Simulating(SpikeDraws)

NextSimulate == SimulationTick

SpecSimulate == InitSimulate /\ [][NextSimulate]_vars

NextSpikes == SpikeTick

SpecSpikes == InitSimulate /\ [][NextSpikes]_vars

-----------------------------------------------------------------------------
(* SpecTrack: joins and leaves from the command line between refreshes *)

TrackedJoinLines == {<<"/", "j", " ">> \o ref : ref \in {<<"1">>, idA, idX}}

TrackedJoin == SubmitCommand(TrackedJoinLines, QuietExts)

TrackedLeave == SubmitCommand({<<"/", "l", " ">> \o idA}, QuietExts)

TrackedFetch == SubmitCommand({<<"/", "t">>}, FetchExts)

\* the loop runs for one refresh interval
Interval == Elapsing({RefreshInterval}) /\ UNCHANGED loopVars

NextTrack == TrackedJoin \/ TrackedLeave \/ TrackedFetch \/ Interval \/ Refresh

SpecTrack == InitKeys /\ [][NextTrack]_vars

-----------------------------------------------------------------------------
(* SpecEngine: place_order calls running beside pause, resume and *)
(* cancel_all_orders on the shared BotState                        *)

OrderSizes == {0, MinOrderSize, MaxOrderSize, MaxOrderSize + 1}

EngineStep(op, caller, calling, recorded) ==
    /\ order_calls' = calling
    /\ last_order_id' = recorded
    /\ last' = [op |-> op, line |-> caller, key |-> NoKey, pre |-> App]
    /\ UNCHANGED <<appVars, detVars, timeVars, loopVars, n_ops, quit_script>>

\* place_order up to drop(state): is_paused is read under the read lock
PlaceOrderCheck(t) ==
    /\ order_calls[t].at = "idle"
    /\ \E size \in OrderSizes :
          EngineStep("place_order_check", t,
                     [order_calls EXCEPT ![t] =
                         IF engine_paused
                         THEN [Idle EXCEPT !.at = "returned", !.size = size,
                                           !.result = "Bot is paused - order rejected"]
                         ELSE [Idle EXCEPT !.at = "checked", !.size = size]],
                     last_order_id)

\* place_order after drop(state): the size is validated and last_order_id is
\* written under the write lock
PlaceOrderRecord(t) ==
    /\ order_calls[t].at = "checked"
    /\ LET size == order_calls[t].size
           returned == [order_calls[t] EXCEPT !.at = "returned"]
       IN  IF size < MinOrderSize
           THEN EngineStep("place_order_rejected", t,
                           [order_calls EXCEPT ![t] =
                               [returned EXCEPT !.result = "Order size below minimum"]],
                           last_order_id)
           ELSE IF size > MaxOrderSize
           THEN EngineStep("place_order_rejected", t,
                           [order_calls EXCEPT ![t] =
                               [returned EXCEPT !.result = "Order size exceeds maximum"]],
                           last_order_id)
           ELSE EngineStep("place_order_recorded", t,
                           [order_calls EXCEPT ![t] =
                               [returned EXCEPT !.result = "Ok",
                                                !.order_id = Some(OrderId(clock))]],
                           Some(OrderId(clock)))

PlaceOrderChecks == \E t \in Callers : PlaceOrderCheck(t)

PlaceOrderRecords == \E t \in Callers : PlaceOrderRecord(t)

\* the caller takes its result and may call again
PlaceOrderReturns ==
    \E t \in Callers :
        /\ order_calls[t].at = "returned"
        /\ EngineStep("place_order_returned", t, [order_calls EXCEPT ![t] = Idle],
                      last_order_id)

EnginePause == Step("pause", <<>>, NoKey, EnginePaused(App))

EngineResume == Step("resume", <<>>, NoKey, EngineResumed(App))

EngineCancelAllOrders == Step("cancel_all_orders", <<>>, NoKey, EnginePaused(App))

NextEngine ==
    \/ PlaceOrderChecks \/ PlaceOrderRecords \/ PlaceOrderReturns
    \/ EnginePause \/ EngineResume \/ EngineCancelAllOrders

SpecEngine == InitLoop /\ [][NextEngine]_vars

-----------------------------------------------------------------------------
(* SpecSession: the keys that open, answer and close the dialogs and the *)
(* command line, and Ctrl+C, with refreshes in between                   *)

\* the keys pressed in Normal mode, and inside a dialog or the command line
SessionOpeningKeys ==
    {Char("4"), Char("6"), Char("q"), Char(":"), CtrlChar("c"), Key("Delete")}

SessionKeys ==
    {Char("q"), CtrlChar("c"), Key("Delete"), Key("Enter"), Key("Esc"), Key("Left")}

SessionNormalKey ==
    /\ input_mode = "Normal"
    /\ KeyEvent(SessionOpeningKeys, QuietExts)

SessionCommandKey ==
    /\ input_mode = "Command"
    /\ KeyEvent(SessionKeys, QuietExts)
    /\ last'.key.code \in {"Char", "Enter"} => command_input \in OpenedBuffers
    /\ n_ops' <= MaxSubmits

SessionQuitKey == input_mode = "QuitConfirmation" /\ KeyEvent(SessionKeys, QuietExts)

SessionLeaveKey ==
    /\ input_mode = "LeaveMarketConfirmation"
    /\ KeyEvent(SessionKeys, QuietExts)
    /\ n_ops' <= MaxSubmits

NextSession ==
    \/ SessionNormalKey \/ SessionCommandKey \/ SessionQuitKey \/ SessionLeaveKey
    \/ Interval \/ Refresh

SpecSession == InitKeys /\ [][NextSession]_vars

-----------------------------------------------------------------------------
(* Properties of the watchlist, under SpecWatch *)

\* the references handed to join_market by the last step: the argument of a
\* join command, or the 1-based selection when Enter was pressed on the Markets tab
LastJoinRefs ==
    IF last.op = "command" /\ last.line \in JoinLines
    THEN {SubSeq(last.line, 4, Len(last.line))}
    ELSE IF /\ last.op = "key" /\ last.key = Key("Enter")
            /\ last.pre.input_mode = "Normal" /\ last.pre.current_tab = "Markets"
            /\ last.pre.available_markets # <<>>
         THEN {UsizeToString(last.pre.selected_market_index + 1)}
         ELSE {}

\* the ids handed to leave_market by the last step
LastLeaveIds ==
    IF last.op = "command" /\ last.line \in LeaveLines
    THEN {SubSeq(last.line, 4, Len(last.line))}
    ELSE {}

\* the log is the log of before with exactly one entry appended, the oldest
\* entry making room when 100 were held
OneEntryAppended ==
    /\ log_count = last.pre.log_count + 1
    /\ logs # <<>>
    /\ SubSeq(logs, 1, Len(logs) - 1) =
          IF Len(last.pre.logs) < MaxLogs THEN last.pre.logs ELSE Tail(last.pre.logs)

WatchlistUnchanged ==
    /\ joined_markets = last.pre.joined_markets
    /\ watched_markets_info = last.pre.watched_markets_info

\* the calls of remove_watched_market made by the last step
RemoveCalls == {i \in 1..Len(calls) : calls[i].op = "remove"}

\* C1: starting from a watchlist without duplicates, no sequence of joins (by
\* index, by id, by command, by Enter on the Markets tab) and leaves puts the
\* same market id twice into the id index or into the ordered watchlist
C1_NoDuplicateIds ==
    /\ NoDuplicates(joined_markets)
    /\ NoDuplicates(IdsOf(watched_markets_info))

\* a join by Enter on the Markets tab of a search result whose id is already watched
C1_Witness ==
    /\ last.op = "key" /\ LastJoinRefs # {}
    /\ Contains(last.pre.joined_markets,
                last.pre.available_markets[last.pre.selected_market_index + 1].id)
    /\ Len(joined_markets) = 2

\* C2: a join that refers to an id already in the watchlist, by the literal id
\* or by the index of a search result carrying it, appends exactly one log
\* entry, of level Warning, and leaves the watchlist unchanged
C2_DuplicateJoinWarns ==
    \A ref \in LastJoinRefs : \A id \in AllIds :
        (/\ Contains(last.pre.joined_markets, id)
         /\ \/ ref = id
            \/ \E i \in 1..Len(last.pre.available_markets) :
                  UsizeToString(i) = ref /\ last.pre.available_markets[i].id = id)
        => /\ OneEntryAppended
           /\ logs[Len(logs)].level = "Warning"
           /\ WatchlistUnchanged

\* C3: leave(id) of an id in the watchlist, the removal from the store having
\* succeeded, removes exactly that entry: the id index and the ordered watchlist
\* each shrink by one, the other entries keep their order, and the removal from
\* the store is called exactly once, for that id
C3_LeaveRemovesOneEntry ==
    \A id \in LastLeaveIds :
        (Contains(last.pre.joined_markets, id) /\ \A i \in RemoveCalls : calls[i].ok)
        => /\ Len(joined_markets) = Len(last.pre.joined_markets) - 1
           /\ Len(watched_markets_info) = Len(last.pre.watched_markets_info) - 1
           /\ joined_markets =
                 RemoveAt(last.pre.joined_markets, Position(last.pre.joined_markets, id))
           /\ watched_markets_info =
                 RemoveAt(last.pre.watched_markets_info,
                          Position(IdsOf(last.pre.watched_markets_info), id))
           /\ Cardinality(RemoveCalls) = 1
           /\ \A i \in RemoveCalls : calls[i].id = id

\* C4: leave(id) of an id that is in neither list changes neither list, calls
\* no removal from the store, and appends exactly one log entry, of level Warning
C4_LeaveAbsentWarns ==
    \A id \in LastLeaveIds :
        (~Contains(last.pre.joined_markets, id)
         /\ ~Contains(IdsOf(last.pre.watched_markets_info), id))
        => /\ WatchlistUnchanged
           /\ RemoveCalls = {}
           /\ OneEntryAppended
           /\ logs[Len(logs)].level = "Warning"

\* a leave of an absent id while other markets are watched and the log is full
C4_Witness ==
    /\ \E id \in LastLeaveIds : ~Contains(last.pre.joined_markets, id)
    /\ joined_markets # <<>>
    /\ Len(last.pre.logs) = MaxLogs

-----------------------------------------------------------------------------
(* Properties of the log buffer, under SpecLog *)

\* C5: after n calls of add_log the log holds exactly the last min(n, 100)
\* entries added, oldest first (its length never exceeds 100); after 150 calls
\* it holds the 51st to the 150th
C5_LogKeepsLast100 ==
    /\ Len(logs) = (IF log_count < 100 THEN log_count ELSE 100)
    /\ \A i \in 1..Len(logs) :
          /\ logs[i].seq = log_count - Len(logs) + i
          /\ logs[i].seq <= Len(Startup) =>
                logs[i].level = "Info" /\ logs[i].message.text = Startup[logs[i].seq]
          /\ logs[i].seq > Len(Startup) + 1 =>
                /\ logs[i].level = "Info"
                /\ logs[i].message.text = "Export feature coming soon..."
    /\ log_count = 150 => logs[1].seq = 51 /\ logs[100].seq = 150

\* 150 entries have been added
C5_Witness == log_count = 150 /\ Len(logs) = 100 /\ logs[1].seq = 51

-----------------------------------------------------------------------------
(* Properties of the input modes and the tabs, under SpecModes *)

\* C6: every step from Normal into QuitConfirmation or into
\* LeaveMarketConfirmation leaves the selection of the dialog it opens on No,
\* whatever that selection was before
C6_ConfirmationOpensOnNo ==
    last.pre.input_mode = "Normal" =>
        /\ input_mode = "QuitConfirmation" => quit_selection = "No"
        /\ input_mode = "LeaveMarketConfirmation" => leave_selection = "No"

\* the quit dialog opened from the Docs tab after an earlier one was dismissed on Yes
C6_Witness ==
    /\ last.pre.input_mode = "Normal" /\ last.pre.quit_selection = "Yes"
    /\ last.pre.current_tab = "Docs"
    /\ input_mode = "QuitConfirmation"

\* C7: in QuitConfirmation a toggle key flips the selection and nothing else;
\* Enter sets should_quit exactly when the selection is Yes and returns to
\* Normal; Escape returns to Normal with should_quit unchanged.  Hence from
\* Normal on any tab quit-key, one toggle, Enter ends with should_quit set, and
\* quit-key, Escape ends with should_quit clear
C7_QuitConfirmation ==
    /\ (last.op = "key" /\ last.pre.input_mode = "QuitConfirmation") =>
          /\ last.key.code \in ToggleCodes =>
                /\ quit_selection = Flip(last.pre.quit_selection)
                /\ quit_selection # last.pre.quit_selection
                /\ input_mode = "QuitConfirmation"
                /\ should_quit = last.pre.should_quit
          /\ last.key.code = "Enter" =>
                /\ should_quit = (last.pre.quit_selection = "Yes")
                /\ input_mode = "Normal"
          /\ last.key.code = "Esc" =>
                /\ should_quit = last.pre.should_quit
                /\ input_mode = "Normal"
    /\ quit_script = "q" => input_mode = "QuitConfirmation"
    /\ quit_script = "q,toggle,Enter" => should_quit
    /\ quit_script = "q,Esc" => ~should_quit /\ input_mode = "Normal"

\* quit-key, one toggle, Enter, started on the Docs tab
C7_Witness == quit_script = "q,toggle,Enter" /\ current_tab = "Docs" /\ should_quit

\* C8: Tab::next and Tab::prev are inverse of each other on the six tabs, and
\* six applications of next, and no fewer, lead from a tab back to itself
C8_TabCycle ==
    /\ \A t \in Tabs :
          /\ TabNext(t) \in Tabs /\ TabPrev(t) \in Tabs
          /\ TabPrev(TabNext(t)) = t
          /\ TabNext(TabPrev(t)) = t
          /\ TabNextTimes(t, 6) = t
          /\ \A k \in 1..5 : TabNextTimes(t, k) # t
    /\ current_tab \in Tabs
    /\ TabNextTimes(current_tab, 6) = current_tab

\* the Tab key pressed on the sixth tab wraps to the first
C8_Witness ==
    /\ last.op = "key" /\ last.key.code \in {"Tab", "Right"}
    /\ last.pre.input_mode = "Normal"
    /\ last.pre.current_tab = "Logs"
    /\ current_tab = "Docs"

-----------------------------------------------------------------------------
(* Properties of the SpikeDetector, under SpecDetector *)

\* the sample stored for the market of the last call, when the call began
PreviousSample == det_call.before[det_call.market_id]

\* a previous sample exists, time has passed since it, and the volume moved
\* faster than the threshold: |dv / dt| > threshold, that is |dv| > threshold * dt
SpikeConditions ==
    /\ PreviousSample.present
    /\ det_call.at - PreviousSample.last_timestamp > 0
    /\ Abs(det_call.volume - PreviousSample.last_volume) >
          volume_velocity_threshold * (det_call.at - PreviousSample.last_timestamp)

\* C9: for non-negative volumes calculate_order_book_imbalance returns 0 when
\* both are zero and (bids - asks) / (bids + asks) otherwise; the result lies in
\* [-1, 1], is 1 exactly when asks = 0 < bids, is -1 exactly when bids = 0 < asks,
\* and is 0 when the volumes are equal
C9_ImbalanceFormula ==
    det_call.op = "calculate_order_book_imbalance" =>
        LET b == det_call.bids
            a == det_call.asks
            r == det_result.obi
        IN  /\ r.den > 0
            /\ (b = 0 /\ a = 0) => r.num = 0
            /\ b + a # 0 => r.num * (b + a) = (b - a) * r.den
            /\ -r.den <= r.num /\ r.num <= r.den
            /\ r.num = r.den <=> (a = 0 /\ b > 0)
            /\ r.num = -r.den <=> (b = 0 /\ a > 0)
            /\ b = a => r.num = 0

\* two parts bids to one part asks: an imbalance of one third
C9_Witness ==
    /\ det_call.op = "calculate_order_book_imbalance"
    /\ det_call.bids = 2 /\ det_call.asks = 1
    /\ 3 * det_result.obi.num = det_result.obi.den

\* C10, as stated: check_volume_velocity returns an event exactly when a
\* previous sample exists for the market, the time elapsed since it is positive
\* and |dv / dt| exceeds the threshold
C10_EventIffSpike ==
    det_call.op = "check_volume_velocity" =>
        ((det_result.kind = "Ok" /\ det_result.event.some) <=> SpikeConditions)

\* C10, amended: check_volume_velocity returns an event exactly when a previous
\* sample exists for the market, the time elapsed since it is positive,
\* |dv / dt| exceeds the threshold, and saving the event succeeded; when saving
\* it failed the call returns the error and no event; the first sample of a
\* market and a sample with t_new <= t_prev give Ok with no event
C10_EventIffSpikeSaved ==
    det_call.op = "check_volume_velocity" =>
        /\ (det_result.kind = "Ok" /\ det_result.event.some)
              <=> (SpikeConditions /\ det_call.save_ok)
        /\ det_result.kind = "Err" <=> (SpikeConditions /\ ~det_call.save_ok)
        /\ det_result.kind = "Err" => ~det_result.event.some
        /\ (~PreviousSample.present \/ det_call.at <= PreviousSample.last_timestamp)
              => (det_result.kind = "Ok" /\ ~det_result.event.some)
        /\ det_result.event.some =>
              /\ det_result.event.market_id = det_call.market_id
              /\ det_result.event.volume_delta =
                    det_call.volume - PreviousSample.last_volume
              /\ det_result.event.time_delta =
                    det_call.at - PreviousSample.last_timestamp
              /\ det_result.event.timestamp = det_call.at

\* a falling volume returned as an event
C10_Witness ==
    /\ det_call.op = "check_volume_velocity"
    /\ det_result.kind = "Ok" /\ det_result.event.some
    /\ det_result.event.volume_delta < 0

\* C11: every call of check_volume_velocity replaces the stored sample of its
\* market by the new (volume, timestamp), whether or not an event fired, time
\* had passed, or saving the event failed, and leaves the samples of all other
\* markets as they were
C11_HistoryAlwaysAdvances ==
    det_call.op = "check_volume_velocity" =>
        /\ volume_history[det_call.market_id] =
              [present |-> TRUE, last_volume |-> det_call.volume,
               last_timestamp |-> det_call.at]
        /\ \A m \in DetMarkets \ {det_call.market_id} :
              volume_history[m] = det_call.before[m]

\* a stale sample (the clock stepped back) of one market while the other
\* market holds a sample
C11_Witness ==
    /\ det_call.op = "check_volume_velocity"
    /\ PreviousSample.present /\ det_call.at < PreviousSample.last_timestamp
    /\ det_call.volume # PreviousSample.last_volume
    /\ \E m \in DetMarkets \ {det_call.market_id} : volume_history[m].present

-----------------------------------------------------------------------------
(* Properties of command entry, under SpecCommand *)

\* C12: in Command mode Enter and Escape both end in Normal mode with an empty
\* command buffer, whatever the buffer held and whatever the interpreter did
\* with it; hence the buffer is empty in every state whose mode is not Command
C12_BufferClearedOnExit ==
    /\ (/\ last.op = "key" /\ last.pre.input_mode = "Command"
        /\ last.key.code \in {"Enter", "Esc"})
       => (input_mode = "Normal" /\ command_input = <<>>)
    /\ input_mode # "Command" => command_input = <<>>

\* a typed join whose save failed
C12_Witness ==
    /\ last.op = "key" /\ last.pre.input_mode = "Command" /\ last.key.code = "Enter"
    /\ last.pre.command_input = <<"/", "j", " ", "1">>
    /\ logs[Len(logs)].level = "Error"
    /\ \E i \in 1..Len(calls) : calls[i].op = "save" /\ ~calls[i].ok

-----------------------------------------------------------------------------
(* Properties of the command interpreter, under SpecInterpreter *)

\* the entries the last step added to the log that are still held
AddedEntries == {i \in 1..Len(logs) : logs[i].seq > last.pre.log_count}

\* C13: every spelling the help listing and the usage messages give for
\* search, trending, join, leave and help, in any letter case, runs its action
\* and not the unknown-command branch
C13_AdvertisedVerbsDispatch ==
    (last.op = "command" /\ last.line \in AdvertisedLines) =>
        /\ log_count > last.pre.log_count
        /\ \A i \in AddedEntries : logs[i].message.text # "Unknown command: {}"

\* what a rejected line must leave alone
OnlyTheLogChanged ==
    /\ WatchlistUnchanged
    /\ available_markets = last.pre.available_markets
    /\ selected_market_index = last.pre.selected_market_index
    /\ selected_watched_market_index = last.pre.selected_watched_market_index
    /\ current_tab = last.pre.current_tab
    /\ is_loading_markets = last.pre.is_loading_markets
    /\ db_rows = last.pre.db_rows
    /\ calls = <<>>

\* C14: a line the interpreter rejects changes nothing but the log: a search,
\* join or leave verb without argument appends one Warning, the usage line; an
\* unrecognized verb appends one Warning naming it, then one Info hint
C14_RejectedLineOnlyLogs ==
    /\ (last.op = "command" /\ last.line \in MissingArgLines) =>
          /\ OnlyTheLogChanged
          /\ OneEntryAppended
          /\ logs[Len(logs)].level = "Warning"
          /\ logs[Len(logs)].message.text \in
                {"Usage: /search <keyword>", "Usage: /joinmarket <market_id or index>",
                 "Usage: /leavemarket <market_id>"}
    /\ (last.op = "command" /\ last.line \in UnknownLines) =>
          /\ OnlyTheLogChanged
          /\ log_count = last.pre.log_count + 2
          /\ Len(logs) >= 2
          /\ SubSeq(logs, 1, Len(logs) - 2) =
                SubSeq(last.pre.logs, Len(last.pre.logs) - (Len(logs) - 2) + 1,
                       Len(last.pre.logs))
          /\ Len(logs) = (IF Len(last.pre.logs) + 2 > MaxLogs THEN MaxLogs
                          ELSE Len(last.pre.logs) + 2)
          /\ logs[Len(logs) - 1].level = "Warning"
          /\ logs[Len(logs) - 1].message.text = "Unknown command: {}"
          /\ logs[Len(logs) - 1].message.arg = ToLowercase(SplitWhitespace(last.line)[1])
          /\ logs[Len(logs)].level = "Info"
          /\ logs[Len(logs)].message.text = "Type /help for available commands"

\* "/search" without a keyword, typed on another tab than Markets after a
\* search and a move of the selection could have left their traces
C14_Witness ==
    /\ last.op = "command" /\ last.line = <<"/", "s", "e", "a", "r", "c", "h">>
    /\ last.pre.available_markets # <<>>
    /\ logs[Len(logs)].message.text = "Usage: /search <keyword>"

-----------------------------------------------------------------------------
(* Further properties of the watchlist, under SpecWatch *)

\* the id a reference stands for, index first: the id of the search result at
\* that index for a number in range, no id (the empty string) for a number out
\* of range, the reference itself otherwise
ResolvedId(pre, ref) ==
    IF ParseUsize(ref).ok
    THEN IF ParseUsize(ref).value > 0 /\ ParseUsize(ref).value <= Len(pre.available_markets)
         THEN pre.available_markets[ParseUsize(ref).value].id
         ELSE <<>>
    ELSE ref

StoreCallsSucceeded == \A i \in 1..Len(calls) : calls[i].ok

\* C15: a successful join (the reference resolves to an id not yet watched and
\* the store does not fail), by index, by an id found in the search results or
\* by an id absent from them, saves the entry through the store, appends it to
\* the id index and to the ordered watchlist, and logs a Success line
C15_JoinPersistsAndAppends ==
    \A ref \in LastJoinRefs :
        LET id == ResolvedId(last.pre, ref)
        IN  (id # <<>> /\ ~Contains(last.pre.joined_markets, id) /\ StoreCallsSucceeded)
            => /\ \E i \in 1..Len(calls) : calls[i] = Call("save", id, TRUE)
               /\ db_rows[id] = "active"
               /\ joined_markets = Append(last.pre.joined_markets, id)
               /\ Len(watched_markets_info) = Len(last.pre.watched_markets_info) + 1
               /\ watched_markets_info[Len(watched_markets_info)].id = id
               /\ SubSeq(watched_markets_info, 1, Len(watched_markets_info) - 1) =
                     last.pre.watched_markets_info
               /\ \E i \in 1..Len(logs) :
                     logs[i].seq > last.pre.log_count /\ logs[i].level = "Success"

\* C16: join resolves index first: a reference that parses as an unsigned
\* integer is never taken as a market id, and when it is 0 or larger than the
\* number of search results the join is rejected with one Warning and no change
\* to the watchlist, the id index or the store
C16_OutOfRangeIndexWarns ==
    \A ref \in LastJoinRefs :
        (/\ ParseUsize(ref).ok
         /\ \/ ParseUsize(ref).value = 0
            \/ ParseUsize(ref).value > Len(last.pre.available_markets))
        => /\ OneEntryAppended
           /\ logs[Len(logs)].level = "Warning"
           /\ WatchlistUnchanged
           /\ db_rows = last.pre.db_rows
           /\ calls = <<>>

\* the last step called the store to save or to remove a market, and the call failed
StoreCallFailed ==
    \E i \in 1..Len(calls) : calls[i].op \in {"save", "remove"} /\ ~calls[i].ok

\* C17: when the save of a join or the removal of a leave fails, the id index
\* and the ordered watchlist are as before and exactly one entry, an Error, is
\* logged; the loop goes on, and nothing but the log tells the state from the
\* one before the operation, so later operations run as if it had not been tried
C17_StoreFailureOnlyLogs ==
    StoreCallFailed =>
        /\ WatchlistUnchanged
        /\ OneEntryAppended
        /\ logs[Len(logs)].level = "Error"
        /\ ~should_quit
        /\ [App EXCEPT !.logs = last.pre.logs, !.log_count = last.pre.log_count,
                       !.calls = last.pre.calls,
                       !.fetched = last.pre.fetched] = last.pre

\* a join by index whose save failed, and a leave whose removal failed: here the former
C17_Witness ==
    /\ StoreCallFailed
    /\ calls = <<Call("save", idA, FALSE)>>
    /\ ~Contains(joined_markets, idA)

\* the calls of the market service made by the last step
FetchCalls == {i \in 1..Len(calls) : calls[i].op \in {"search", "trending"}}

\* C18: when a search or trending request fails, the candidate list and
\* selected_market_index are what they were before it and an Error is logged;
\* when it succeeds the candidate list is the result and selected_market_index is 0
C18_FetchReplacesOrKeeps ==
    /\ (\E i \in FetchCalls : ~calls[i].ok) =>
          /\ available_markets = last.pre.available_markets
          /\ selected_market_index = last.pre.selected_market_index
          /\ logs[Len(logs)].level = "Error"
          /\ logs[Len(logs)].seq > last.pre.log_count
    /\ (\E i \in FetchCalls : calls[i].ok) =>
          /\ available_markets = fetched
          /\ selected_market_index = 0

\* a failed request while the second of two search results was selected
C18_Witness ==
    /\ \E i \in FetchCalls : ~calls[i].ok
    /\ Len(available_markets) = 2
    /\ selected_market_index = 1

\* C19: is_loading_markets is false whenever an event handler has returned,
\* the request having succeeded or failed: it is false whenever the loop draws
\* or polls
C19_NotLoadingBetweenEvents == ~is_loading_markets

\* a trending request has failed
C19_Witness ==
    /\ \E i \in FetchCalls : calls[i].op = "trending" /\ ~calls[i].ok
    /\ current_tab = "Markets"
    /\ ~is_loading_markets

\* C20: two executions of refresh_data that get past the throttle check are at
\* least 500 ms apart, the first is at least 500 ms after the App was created,
\* and a call made sooner changes no state at all, last_refresh included
C20_RefreshThrottled ==
    /\ \A i \in 1..Len(refreshed_at) :
          /\ refreshed_at[i] >= RefreshInterval
          /\ \A j \in 1..Len(refreshed_at) :
                i < j => refreshed_at[j] - refreshed_at[i] >= RefreshInterval
    /\ last.op = "refresh_sooner" =>
          /\ App = [last.pre EXCEPT !.calls = <<>>, !.fetched = <<>>]
          /\ last_refresh = last.pre.last_refresh

\* a call 499 ms after the execution that got past the check at 500 ms
C20_Witness ==
    /\ last.op = "refresh_sooner"
    /\ refreshed_at = <<500>>
    /\ clock = 999
    /\ engine_paused

-----------------------------------------------------------------------------
(* Properties of the highlighted positions, under SpecSelect *)

\* the last valid position of a list, 0 for the empty list
LastPosition(seq) == SaturatingSub(Len(seq), 1)

\* the last step was Up or Down in Normal mode on tab `tab`
Navigated(code, tab) ==
    /\ last.op = "key"
    /\ last.key = Key(code)
    /\ last.pre.input_mode = "Normal"
    /\ last.pre.current_tab = tab

\* C23: selected_watched_market_index is always a position of the ordered
\* watchlist (0 when it is empty, at most len - 1 otherwise), whatever keys and
\* commands came before; Up and Down on the MarketDetail tab stop at 0 and at
\* len - 1
C23_WatchedSelectionValid ==
    /\ selected_watched_market_index <= LastPosition(watched_markets_info)
    /\ Navigated("Up", "MarketDetail") =>
          selected_watched_market_index = SaturatingSub(last.pre.selected_watched_market_index, 1)
    /\ Navigated("Down", "MarketDetail") =>
          selected_watched_market_index =
              IF last.pre.selected_watched_market_index < LastPosition(watched_markets_info)
              THEN last.pre.selected_watched_market_index + 1
              ELSE last.pre.selected_watched_market_index

LeaveDialogKey(code) ==
    /\ last.op = "key"
    /\ last.key = Key(code)
    /\ last.pre.input_mode = "LeaveMarketConfirmation"

\* C25: in the leave dialog Enter on Yes leaves the highlighted entry: when
\* the store does not fail the ordered watchlist is the old one without that
\* entry, the highlighted position is inside the new list and the mode is
\* Normal; Enter on No and Escape keep the watchlist and the position and
\* return to Normal
C25_LeaveDialogLeavesHighlighted ==
    /\ (LeaveDialogKey("Enter") /\ last.pre.leave_selection = "Yes" /\ ~StoreCallFailed) =>
          /\ watched_markets_info =
                RemoveAt(last.pre.watched_markets_info,
                         last.pre.selected_watched_market_index + 1)
          /\ selected_watched_market_index <= LastPosition(watched_markets_info)
          /\ input_mode = "Normal"
    /\ (LeaveDialogKey("Esc")
        \/ (LeaveDialogKey("Enter") /\ last.pre.leave_selection = "No")) =>
          /\ WatchlistUnchanged
          /\ selected_watched_market_index = last.pre.selected_watched_market_index
          /\ input_mode = "Normal"

-----------------------------------------------------------------------------
(* Properties of the two watchlist structures and of the store *)

\* the elements of a sequence
Range(seq) == {seq[i] : i \in 1..Len(seq)}

\* C26: the id index and the ordered watchlist describe the same set of
\* markets after the initial load and after any joins (by index, by an id found
\* in the results, by an id absent from them) and leaves
C26_IndexMatchesWatchlist ==
    Range(joined_markets) = Range(IdsOf(watched_markets_info))

\* the ids of the rows the store holds with the active flag set
ActiveRows == {id \in AllIds : db_rows[id] = "active"}

-----------------------------------------------------------------------------
(* Properties of the key bindings, under SpecKeys *)

\* the last step was the key `key` pressed in mode `mode`
Pressed(key, mode) ==
    /\ last.op = "key"
    /\ last.key = key
    /\ last.pre.input_mode = mode

\* C22: in Normal mode the keys that are not tab-specific act on every tab,
\* Docs included: 'p' pauses the engine, 'r' resumes it, '!' cancels all orders
\* and leaves is_paused true, 's' and ':' enter command mode, 't' requests the
\* trending markets
C22_GlobalKeysOnEveryTab ==
    /\ Pressed(Char("p"), "Normal") => engine_paused
    /\ Pressed(Char("r"), "Normal") => ~engine_paused
    /\ Pressed(Char("!"), "Normal") => engine_paused /\ is_paused
    /\ Pressed(Char("s"), "Normal") => input_mode = "Command"
    /\ Pressed(Char(":"), "Normal") => input_mode = "Command"
    /\ Pressed(Char("t"), "Normal") => \E i \in FetchCalls : calls[i].op = "trending"

\* the tab-cycle keys and the digit keys
TabKeys == TabCycleKeys \cup {Char(c) : c \in {"1", "2", "3", "4", "5", "6"}}

\* C28: the tab-cycle keys and the digit keys change current_tab only in
\* Normal mode: in command mode and in the two dialogs they leave it as it is,
\* and so do Left, Right and Tab on the Docs tab while a section is viewed
C28_TabsChangeOnlyInNormal ==
    /\ (last.op = "key" /\ last.key \in TabKeys /\ last.pre.input_mode # "Normal") =>
          current_tab = last.pre.current_tab
    /\ (/\ last.op = "key"
        /\ last.key \in {Key("Left"), Key("Right"), Key("Tab")}
        /\ last.pre.input_mode = "Normal"
        /\ last.pre.current_tab = "Docs"
        /\ last.pre.docs_viewing_content) =>
          current_tab = "Docs"

\* Right pressed on the Docs tab while a section is viewed
C28_Witness ==
    /\ Pressed(Key("Right"), "Normal")
    /\ last.pre.current_tab = "Docs"
    /\ last.pre.docs_viewing_content
    /\ current_tab = "Docs"

\* the keys for which the mode and the tab define no transition
NoTransition(pre, key) ==
    \/ key = Key("Home")
    \/ /\ pre.input_mode = "Normal"
       /\ \/ key = Char("x")
          \/ key = Key("Enter") /\ pre.current_tab \in {"Dashboard", "Orders", "MarketDetail", "Logs"}
          \/ key = Key("Delete") /\ pre.current_tab # "MarketDetail"
          \/ key = Key("Up") /\ pre.current_tab \in {"Dashboard", "Orders", "Logs"}
          \/ key = Key("Esc") /\ pre.current_tab # "Docs"
    \/ /\ pre.input_mode \in {"QuitConfirmation", "LeaveMarketConfirmation"}
       /\ key.code \in {"Char", "Delete", "Backspace"}
    \/ /\ pre.input_mode = "Command"
       /\ key \in TabCycleKeys \cup {Key("Delete")}

\* C29: a key for which the mode and the tab define no transition leaves every
\* field of the state as it was, the log included (every handler returns Ok)
C29_UnboundKeyChangesNothing ==
    (last.op = "key" /\ NoTransition(last.pre, last.key)) =>
        [App EXCEPT !.calls = last.pre.calls, !.fetched = last.pre.fetched] = last.pre

\* a key without binding pressed in the quit dialog
C29_Witness ==
    /\ Pressed(Key("Delete"), "QuitConfirmation")
    /\ input_mode = "QuitConfirmation"
    /\ last.pre.quit_selection = "Yes"

\* C30: from command mode and from the two dialogs a key leads to the same
\* mode or to Normal, never to another of them: the keys that open a dialog or
\* command mode from Normal open nothing there
C30_ModalModesReturnToNormal ==
    (last.op = "key" /\ last.pre.input_mode # "Normal") =>
        input_mode \in {last.pre.input_mode, "Normal"}

\* 'q' pressed in the leave dialog
C30_Witness ==
    /\ Pressed(Char("q"), "LeaveMarketConfirmation")
    /\ input_mode = "LeaveMarketConfirmation"

-----------------------------------------------------------------------------
(* Properties of the run loop, under SpecLoop *)

\* the orders in which the statements of one iteration run
IterationOrders ==
    {<<"draw", "event", "check", "refresh">>, <<"draw", "poll", "check", "refresh">>}

\* C21: an iteration of the run loop handles at most one event, then tests
\* should_quit, then refreshes; once should_quit is set the loop stops in that
\* iteration: after the handler that set it only the test runs, no refresh and
\* no other handler
C21_LoopStopsOnQuit ==
    /\ \E order \in IterationOrders : IsPrefix(iteration, order)
    /\ since_quit \in {<<>>, <<"check">>}
    /\ should_quit => pc \in {"check", "done"}
    /\ pc = "done" => should_quit

\* Ctrl+C was handled, the test found should_quit and the loop has ended
C21_Witness ==
    /\ pc = "done"
    /\ should_quit
    /\ last.key = CtrlChar("c")
    /\ iteration = <<"draw", "event", "check">>
    /\ since_quit = <<"check">>
    /\ refreshed_at # <<>>

-----------------------------------------------------------------------------
(* Enter on the Markets tab, under SpecWatch *)

\* C40: Enter in Normal mode on the Markets tab with a non-empty candidate list
\* joins exactly the highlighted candidate, available_markets[selected_market_index],
\* with the outcomes of a join by that 1-based index (already joined: a Warning
\* and no change; store failure: no change of the watchlist; otherwise the
\* candidate is appended to the watchlist); on another tab than Docs, or with
\* an empty candidate list, Enter changes nothing
C40_EnterJoinsHighlighted ==
    Pressed(Key("Enter"), "Normal") /\ last.pre.current_tab # "Docs" =>
        LET pre == [last.pre EXCEPT !.calls = <<>>, !.fetched = <<>>]
        IN  IF pre.current_tab = "Markets" /\ pre.available_markets # <<>>
            THEN LET market == pre.available_markets[pre.selected_market_index + 1]
                 IN  /\ \E ext \in DbExts :
                            App = JoinByIndex(pre, pre.selected_market_index + 1, ext)
                     /\ IF Contains(pre.joined_markets, market.id)
                        THEN WatchlistUnchanged /\ logs[Len(logs)].level = "Warning"
                        ELSE IF StoreCallFailed
                        THEN WatchlistUnchanged /\ logs[Len(logs)].level = "Error"
                        ELSE /\ watched_markets_info = Append(pre.watched_markets_info, market)
                             /\ joined_markets = Append(pre.joined_markets, market.id)
            ELSE App = pre

\* Enter joined the second candidate of the list, which was the highlighted one
C40_Witness ==
    /\ Pressed(Key("Enter"), "Normal")
    /\ last.pre.current_tab = "Markets"
    /\ last.pre.selected_market_index = 1
    /\ Len(last.pre.available_markets) = 2
    /\ watched_markets_info =
          Append(last.pre.watched_markets_info, last.pre.available_markets[2])

-----------------------------------------------------------------------------
(* The Docs drill-in, under SpecDocs *)

OnDocs(codes) ==
    /\ last.op = "key"
    /\ last.pre.input_mode = "Normal"
    /\ last.pre.current_tab = "Docs"
    /\ last.key.code \in codes

\* C33: docs_selected_section is in 0..4; docs_scroll_offset is 0 whenever
\* docs_viewing_content is false and is at most the line count of the selected
\* section minus 10 while it is true; Enter on the Docs tab drills in with the
\* offset at 0, Backspace, Left and Esc drill out with the offset at 0, and no
\* key changes the selected section while the content is viewed
C33_DocsBounds ==
    /\ docs_selected_section \in 0..4
    /\ ~docs_viewing_content => docs_scroll_offset = 0
    /\ docs_viewing_content =>
          docs_scroll_offset <= DocLineCounts[docs_selected_section + 1] - 10
    /\ OnDocs({"Enter"}) =>
          /\ docs_viewing_content
          /\ ~last.pre.docs_viewing_content => docs_scroll_offset = 0
    /\ OnDocs({"Backspace", "Left", "Esc"}) =>
          /\ ~docs_viewing_content
          /\ docs_scroll_offset = 0
    /\ last.op = "key" /\ last.pre.docs_viewing_content =>
          docs_selected_section = last.pre.docs_selected_section

\* Esc closed the content of the third section, which was scrolled to its
\* last offset
C33_Witness ==
    /\ OnDocs({"Esc"})
    /\ last.pre.docs_viewing_content
    /\ last.pre.docs_selected_section = 2
    /\ last.pre.docs_scroll_offset = 30
    /\ ~docs_viewing_content

-----------------------------------------------------------------------------
(* The simulated analysis, under SpecSimulate and SpecSpikes *)

\* the value of an Option<f64> field before the tick, 0 when it was not defined
ValueBefore(id, field) ==
    IF id \in DOMAIN last.pre.market_analysis_data
       /\ last.pre.market_analysis_data[id][field] # None
    THEN last.pre.market_analysis_data[id][field][1]
    ELSE 0

\* C34: after any number of simulation ticks every analysis entry has
\* current_velocity within [-2000, 2000] and current_obi within [-1.0, 1.0],
\* and one tick changes the velocity by at most 100 and the imbalance by at
\* most 0.05 in absolute value
C34_SimulationBounded ==
    \A id \in DOMAIN market_analysis_data :
        LET entry == market_analysis_data[id]
        IN  /\ entry.current_velocity # None =>
                  entry.current_velocity[1] \in -MaxVelocity..MaxVelocity
            /\ entry.current_obi # None =>
                  entry.current_obi[1] \in -ObiScale..ObiScale
            /\ last.op = "simulate" =>
                  /\ Abs(entry.current_velocity[1] - ValueBefore(id, "current_velocity")) <= 100
                  /\ 20 * Abs(entry.current_obi[1] - ValueBefore(id, "current_obi")) <= ObiScale

\* a tick drew the largest rise of the velocity and the largest fall of the
\* imbalance while both were at their limits
C34_Witness ==
    /\ last.op = "simulate"
    /\ last.line.rnd = RandomScale /\ last.line.rnd2 = 0
    /\ idA \in DOMAIN last.pre.market_analysis_data
    /\ last.pre.market_analysis_data[idA].current_velocity = Some(MaxVelocity)
    /\ last.pre.market_analysis_data[idA].current_obi = Some(-ObiScale)
    /\ market_analysis_data[idA].current_velocity = Some(MaxVelocity)
    /\ market_analysis_data[idA].current_obi = Some(-ObiScale)

\* C35: recent_events holds at most 10 entries, newest first: a tick that
\* draws a velocity event puts it at the front, and when that makes 11 entries
\* the one dropped is the last, the oldest
C35_RecentEventsBounded ==
    \A id \in DOMAIN market_analysis_data :
        LET entry == market_analysis_data[id]
            before == IF id \in DOMAIN last.pre.market_analysis_data
                      THEN last.pre.market_analysis_data[id].recent_events ELSE <<>>
        IN  /\ Len(entry.recent_events) <= MaxRecentEvents
            /\ last.op = "simulate" =>
                  IF Abs(entry.current_velocity[1]) > SpikeVelocity
                     /\ last.line.spike > SpikeDraw
                  THEN /\ entry.recent_events[1].velocity = entry.current_velocity[1]
                       /\ entry.recent_events[1].market_id = id
                       /\ Tail(entry.recent_events) =
                             IF Len(before) < MaxRecentEvents THEN before
                             ELSE SubSeq(before, 1, MaxRecentEvents - 1)
                  ELSE entry.recent_events = before

\* the eleventh event arrived: the list was full, its oldest entry, of
\* velocity 1100, is gone and the next oldest, of velocity 1200, is now last
C35_Witness ==
    /\ last.op = "simulate"
    /\ idA \in DOMAIN last.pre.market_analysis_data
    /\ LET before == last.pre.market_analysis_data[idA].recent_events
           after == market_analysis_data[idA].recent_events
       IN  /\ Len(before) = MaxRecentEvents
           /\ before[MaxRecentEvents].velocity = 1100
           /\ Len(after) = MaxRecentEvents
           /\ after[MaxRecentEvents].velocity = 1200
           /\ after[1].velocity = MaxVelocity

-----------------------------------------------------------------------------
(* The analysis of watched markets, under SpecTrack *)

PassedRefresh == last.op = "refresh" /\ calls # <<>>

Defined(id) ==
    /\ id \in DOMAIN market_analysis_data
    /\ market_analysis_data[id].current_velocity # None
    /\ market_analysis_data[id].current_obi # None

\* C36: immediately after a refresh that got past the throttle, every id of
\* the watchlist, however it was joined, has an analysis entry whose
\* current_velocity and current_obi are both defined
C36_WatchedMarketsSimulated ==
    PassedRefresh => \A id \in Range(joined_markets) : Defined(id)

\* the same for the ids of the ordered watchlist only
ListedMarketsSimulated ==
    PassedRefresh => \A id \in Range(IdsOf(watched_markets_info)) : Defined(id)

\* the entry of id was advanced by one step of the simulation from the values
\* it had before the refresh
Resumed(id) ==
    \E draw \in RefreshDraws :
        market_analysis_data[id] =
            SimulateEntry(last.pre.market_analysis_data[id], id, draw, clock)

\* the analysis entries that existed before the last refresh were advanced
\* from their old values for the ids of watched and left as they were for the others
AdvancedExactly(watched) ==
    PassedRefresh =>
        \A id \in DOMAIN last.pre.market_analysis_data :
            IF id \in watched THEN Resumed(id)
            ELSE market_analysis_data[id] = last.pre.market_analysis_data[id]

AnalysisKept ==
    /\ DOMAIN last.pre.market_analysis_data \subseteq DOMAIN market_analysis_data
    /\ last.op = "command" => market_analysis_data = last.pre.market_analysis_data

\* C37: the analysis state is independent of watchlist membership: a leave
\* (like every command) neither removes nor alters an analysis entry, the set
\* of ids with an entry only grows, a later tick does not advance the entry of
\* a market that was left, and advances it from its old values once the market
\* is joined again
C37_AnalysisOutlivesMembership ==
    AnalysisKept /\ AdvancedExactly(Range(joined_markets))

\* the same, a market counting as joined again when it is back in the ordered
\* watchlist
AnalysisOutlivesListing ==
    AnalysisKept /\ AdvancedExactly(Range(IdsOf(watched_markets_info)))

-----------------------------------------------------------------------------
(* The paused flag, under SpecRefresh *)

\* C38: with the P, R and ! keys and the refreshes as the only events, and
\* nothing else acting on the engine, the dashboard's is_paused agrees with the
\* engine's paused flag after every event: P and ! leave both true, R leaves
\* both false, and a refresh that gets past the throttle copies the engine's value
C38_PausedAgreesWithEngine ==
    /\ is_paused = engine_paused
    /\ Pressed(Char("p"), "Normal") \/ Pressed(Char("!"), "Normal") =>
          is_paused /\ engine_paused
    /\ Pressed(Char("r"), "Normal") => ~is_paused /\ ~engine_paused
    /\ last.op = "refresh" /\ calls # <<>> =>
          /\ is_paused = last.pre.engine_paused
          /\ engine_paused = last.pre.engine_paused

\* the panic key paused a running engine
C38_Witness ==
    /\ Pressed(Char("!"), "Normal")
    /\ ~last.pre.engine_paused /\ ~last.pre.is_paused
    /\ engine_paused /\ is_paused
    /\ refreshed_at # <<>>

-----------------------------------------------------------------------------
(* Orders and the paused flag, under SpecEngine *)

\* C39: under every interleaving of place_order calls with pause and
\* cancel_all_orders calls, place_order writes last_order_id, and returns an
\* order id, only at a moment when the engine is not paused
C39_NoOrderWhilePaused ==
    last.op = "place_order_recorded" => ~engine_paused

\* a call that found the engine paused under the read lock is rejected
OrderRejectedWhenPaused ==
    last.op = "place_order_check" /\ engine_paused =>
        /\ order_calls[last.line].at = "returned"
        /\ order_calls[last.line].order_id = None

-----------------------------------------------------------------------------
(* The leave dialog and should_quit, under SpecSession *)

C32_QuitOnlyByConfirmationOrCtrlC ==
    /\ last.op = "start" => ~should_quit
    /\ last.pre.should_quit => should_quit
    /\ should_quit /\ ~last.pre.should_quit =>
          /\ last.op = "key"
          /\ \/ /\ last.pre.input_mode = "QuitConfirmation"
                /\ last.key = Key("Enter")
                /\ last.pre.quit_selection = "Yes"
             \/ /\ last.pre.input_mode = "Normal"
                /\ last.key = CtrlChar("c")

\* Ctrl+C on the Docs tab, after a refresh got past the throttle
C32_Witness ==
    /\ should_quit
    /\ Pressed(CtrlChar("c"), "Normal")
    /\ last.pre.current_tab = "Docs"
    /\ refreshed_at # <<>>

====
